---- MODULE Spec2Model ----
(***************************************************************************)
(* A model of tg-monitor: the SQLite store (messages, links, the FTS5      *)
(* index and its triggers), the keyword alert de-duplication, the LLM      *)
(* credential-slot pool with its retry loop, and the chunked summarizer.   *)
(*                                                                         *)
(* Each subsystem has its own specification (SpecStore, SpecAlerts,        *)
(* SpecLLM, SpecSum).  A specification moves only its own variables; the   *)
(* others rest at their idle values.                                       *)
(***************************************************************************)
EXTENDS Integers, Sequences, FiniteSets, TLC

\* ------------------------------------------------------------------------
\* Bounds of the model
\* ------------------------------------------------------------------------

\* longest batch handed to insert_messages_batch
MaxBatch == 2

\* capacity of the alert de-duplication deque; stands for the maxlen=2000 of
\* src/src/alerts.py:53, scaled down so that the deque fills and evicts
DequeMaxLen == 2

\* the wall clock (hours) starts and stops here
StartClock == 24
MaxClock == 48

\* largest max_concurrent_per_key configured
MaxPerKey == 2

\* ------------------------------------------------------------------------
\* General helpers
\* ------------------------------------------------------------------------

Max(S) == CHOOSE x \in S : \A y \in S : y <= x

Range(s) == {s[i] : i \in 1..Len(s)}

\* SQL NULL / Python None
Null == "<null>"

\* ========================================================================
\* STORE: messages, links, messages_fts            (src/src/db)
\* ========================================================================

VARIABLES
    messages,      \* rows of table messages as the connection sees them
    links,         \* rows of table links as the connection sees them
    messages_fts,  \* entries of the FTS5 index: a sequence of [rowid, text]
    committed,     \* the last committed [messages, links, messages_fts]
    batch,         \* the insert_messages_batch call in progress
    lastInsert     \* the last INSERT OR IGNORE INTO messages statement run

storeVars == <<messages, links, messages_fts, committed, batch, lastInsert>>

\* (id, group_id) of the messages offered: one id in two groups, two ids in
\* one group
MsgKeys == {<<1, 10>>, <<1, 20>>, <<2, 10>>}
Texts == {Null, "see http://x"}

\* the message dicts offered to the store
Msgs == {[id |-> k[1], group_id |-> k[2], text |-> t] :
            k \in MsgKeys, t \in Texts}

\* URL_PATTERN.findall(text)
URL_PATTERN_findall(text) ==
    IF text = "see http://x" THEN {"http://x"} ELSE {}

\* Python truthiness of msg.get("text")
Truthy(text) == text # Null /\ text # ""

\* PRIMARY KEY (id, group_id)
HasKey(rows, id, gid) == \E r \in rows : r.id = id /\ r.group_id = gid

\* the rowid SQLite gives a new row of a rowid table: max(rowid) + 1
NewRowid(rows) == IF rows = {} THEN 1 ELSE Max({r.rowid : r \in rows}) + 1

\* A store view: the three tables together
View(m, l, f) == [messages |-> m, links |-> l, messages_fts |-> f]

\* trigger messages_ai: AFTER INSERT ON messages, one FTS entry per new row
FTS_TRIGGER_SQL(v, row) ==
    [v EXCEPT !.messages_fts =
        Append(@, [rowid |-> row.rowid, text |-> row.text])]

\* a plain INSERT into a table that lacks the PRIMARY KEY (id, group_id)
InsertMessageNoKey(v, msg) ==
    LET row == [rowid |-> NewRowid(v.messages), id |-> msg.id,
                group_id |-> msg.group_id, text |-> msg.text]
    IN  FTS_TRIGGER_SQL([v EXCEPT !.messages = @ \cup {row}], row)

\* INSERT OR IGNORE INTO messages (...): a key that is stored is left alone
\* and fires no trigger
InsertOrIgnoreMessage(v, msg) ==
    IF HasKey(v.messages, msg.id, msg.group_id)
    THEN v
    ELSE LET row == [rowid |-> NewRowid(v.messages), id |-> msg.id,
                     group_id |-> msg.group_id, text |-> msg.text]
         IN  FTS_TRIGGER_SQL([v EXCEPT !.messages = @ \cup {row}], row)

\* INSERT OR IGNORE INTO links for every URL of a truthy text
\* (UNIQUE index idx_links_unique on (url, group_id, message_id))
InsertOrIgnoreLinks(v, msg) ==
    IF Truthy(msg.text)
    THEN [v EXCEPT !.links = @ \cup
            {[url |-> u, message_id |-> msg.id, group_id |-> msg.group_id]
                : u \in URL_PATTERN_findall(msg.text)}]
    ELSE v

CurrentView == View(messages, links, messages_fts)

SetView(v) ==
    /\ messages' = v.messages
    /\ links' = v.links
    /\ messages_fts' = v.messages_fts

NoBatch == [active |-> FALSE, left |-> 0]
NoInsert == [id |-> 0, group_id |-> 0, dup |-> FALSE]

NoteInsert(msg) ==
    lastInsert' = [id |-> msg.id, group_id |-> msg.group_id,
                   dup |-> HasKey(messages, msg.id, msg.group_id)]

\* where an exception may leave insert_message
FailPoints == {"none", "insert", "links", "commit"}

\* MessagesDAO.insert_message: the statements run up to the failure point;
\* the except branch logs and neither rolls back nor commits
insert_message(msg, fail) ==
    /\ fail \in FailPoints
    /\ LET v1 == InsertOrIgnoreMessage(CurrentView, msg)
           v2 == InsertOrIgnoreLinks(v1, msg)
       IN  CASE fail = "insert" ->
                   /\ UNCHANGED <<messages, links, messages_fts, committed,
                                  lastInsert>>
             [] fail = "links" ->
                   /\ Truthy(msg.text)
                   /\ URL_PATTERN_findall(msg.text) # {}
                   /\ SetView(v1)
                   /\ NoteInsert(msg)
                   /\ UNCHANGED committed
             [] fail = "commit" ->
                   /\ SetView(v2)
                   /\ NoteInsert(msg)
                   /\ UNCHANGED committed
             [] OTHER ->
                   /\ SetView(v2)
                   /\ NoteInsert(msg)
                   /\ committed' = v2
    /\ UNCHANGED batch

\* MessagesDAO.insert_messages_batch, entry: an empty list returns at once.
\* The list is n messages long; its messages are drawn as the loop reaches
\* them (nothing reads a message before its round).
BatchStart(n) ==
    /\ ~batch.active
    /\ n \in 1..MaxBatch
    /\ batch' = [active |-> TRUE, left |-> n]
    /\ UNCHANGED <<messages, links, messages_fts, committed, lastInsert>>

\* one round of the for loop: the message row, then its links
BatchStep(msg) ==
    /\ batch.active
    /\ batch.left > 0
    /\ SetView(InsertOrIgnoreLinks(InsertOrIgnoreMessage(CurrentView, msg),
                                   msg))
    /\ NoteInsert(msg)
    /\ batch' = [batch EXCEPT !.left = @ - 1]
    /\ UNCHANGED committed

\* the commit after the loop
BatchCommit ==
    /\ batch.active
    /\ batch.left = 0
    /\ committed' = CurrentView
    /\ batch' = NoBatch
    /\ UNCHANGED <<messages, links, messages_fts, lastInsert>>

\* an exception inside the try: logged, no rollback, no commit
BatchFail ==
    /\ batch.active
    /\ batch' = NoBatch
    /\ UNCHANGED <<messages, links, messages_fts, committed, lastInsert>>

IdleStore ==
    /\ messages = {}
    /\ links = {}
    /\ messages_fts = <<>>
    /\ committed = View({}, {}, <<>>)
    /\ batch = NoBatch
    /\ lastInsert = NoInsert

\* ========================================================================
\* ALERTS: keyword alert de-duplication   (src/src/alerts.py, db/alerts.py)
\* ========================================================================

VARIABLES
    clock,             \* datetime.now(timezone.utc), in hours
    alerted_messages,  \* table alerted_messages: rows [msg_key, alerted_at]
    alerted_deque,     \* AlertManager._alerted_deque
    alerted_ids,       \* AlertManager._alerted_ids
    lastEmit,          \* per key, the time of its latest notification or -1
    lastSend,          \* the latest notification: its key, and when that key
                       \* was notified before (-1: never)
    bootAt,            \* when the process last restarted (-1: never)
    hitsSinceBoot,     \* keys alerted since the process started
    recentHits         \* the last DequeMaxLen distinct keys alerted since the
                       \* process started, oldest first

alertVars == <<clock, alerted_messages, alerted_deque, alerted_ids,
               lastEmit, lastSend, bootAt, hitsSinceBoot, recentHits>>

\* the messages that can hit a keyword: (group_id, id)
AlertMsgs == {<<10, 1>>, <<10, 2>>, <<10, 3>>, <<20, 1>>}

\* msg_key = f"{group_id}_{id}": one key per (group_id, id)
MsgKey(m) == <<m[1], "_", m[2]>>

AlertKeys == {MsgKey(m) : m \in AlertMsgs}

\* hours the clock advances by in one step
TickHours == {12}

\* Timestamps are text.  A timestamp is modelled as the sequence of its
\* fields, each a number that orders like the fixed-width text it stands
\* for: the date "YYYY-MM-DD" (the day number), the separator (its character
\* code), the time "HH:MM:SS" (the hour), and a code for what follows.
CharSpace == 32
CharT == 84
CharPlus == 43

\* SQLite datetime('now'): "YYYY-MM-DD HH:MM:SS"
SqliteDatetimeNow(t) == <<t \div 24, CharSpace, t % 24>>

\* Python datetime.isoformat(timespec='seconds') of an aware UTC datetime:
\* "YYYY-MM-DDTHH:MM:SS+00:00"
IsoFormat(t) == <<t \div 24, CharT, t % 24, CharPlus>>

\* a < b for text under SQLite's BINARY collation (memcmp, then length)
RECURSIVE TextLess(_, _)
TextLess(a, b) ==
    IF b = <<>> THEN FALSE
    ELSE IF a = <<>> THEN TRUE
    ELSE IF Head(a) # Head(b) THEN Head(a) < Head(b)
    ELSE TextLess(Tail(a), Tail(b))

TextGE(a, b) == ~TextLess(a, b)

\* AlertsDAO.get_recent_alerted_ids(hours):
\*   SELECT msg_key FROM alerted_messages WHERE alerted_at >= since
get_recent_alerted_ids(hours) ==
    LET since == IsoFormat(clock - hours)
    IN  {r.msg_key : r \in {q \in alerted_messages :
                                TextGE(q.alerted_at, since)}}

\* AlertsDAO.add_alerted_message: INSERT OR IGNORE INTO alerted_messages
\* (msg_key), alerted_at DEFAULT (datetime('now')); msg_key is PRIMARY KEY
add_alerted_message(rows, key) ==
    IF \E r \in rows : r.msg_key = key
    THEN rows
    ELSE rows \cup {[msg_key |-> key,
                     alerted_at |-> SqliteDatetimeNow(clock)]}

\* collections.deque(..., maxlen): append drops the head of a full deque
DequeAppend(d, x) ==
    IF Len(d) >= DequeMaxLen THEN Append(Tail(d), x) ELSE Append(d, x)

\* collections.deque(iterable, maxlen): the last maxlen items
RECURSIVE DequeOf(_)
DequeOf(s) == IF Len(s) > DequeMaxLen THEN DequeOf(Tail(s)) ELSE s

\* the orders in which a Python set may be iterated
Orderings(S) ==
    {f \in [1..Cardinality(S) -> S] : \A i, j \in 1..Cardinality(S) :
                                         i # j => f[i] # f[j]}

RemoveKey(s, x) == SelectSeq(s, LAMBDA y : y # x)

NoSend == [key |-> <<>>, prev |-> -1]

\* AlertManager.check_message for a message with key `key`; `enabled` is the
\* alerts_enabled switch as read, `matched` whether the text is non-empty and
\* holds a keyword
check_message(key, enabled, matched) ==
    IF ~enabled \/ ~matched \/ key \in alerted_ids
    THEN UNCHANGED alertVars
    ELSE /\ alerted_ids' =
              (IF Len(alerted_deque) = DequeMaxLen
               THEN alerted_ids \ {alerted_deque[1]}
               ELSE alerted_ids) \cup {key}
         /\ alerted_deque' = DequeAppend(alerted_deque, key)
         /\ alerted_messages' = add_alerted_message(alerted_messages, key)
         /\ lastSend' = [key |-> key, prev |-> lastEmit[key]]
         /\ lastEmit' = [lastEmit EXCEPT ![key] = clock]
         /\ hitsSinceBoot' = hitsSinceBoot \cup {key}
         /\ recentHits' = LET r == Append(RemoveKey(recentHits, key), key)
                          IN  IF Len(r) > DequeMaxLen THEN Tail(r) ELSE r
         /\ UNCHANGED <<clock, bootAt>>

\* The process restarts: AlertManager.__init__ (empty deque and set), then
\* AlertManager.load_from_db with the keys in the order the set yields them
Restart(order) ==
    /\ order \in Orderings(get_recent_alerted_ids(24))
    /\ alerted_ids' = Range(order)
    /\ alerted_deque' = DequeOf(order)
    /\ bootAt' = clock
    /\ hitsSinceBoot' = {}
    /\ recentHits' = <<>>
    /\ lastSend' = NoSend
    /\ UNCHANGED <<clock, alerted_messages, lastEmit>>

\* time passes
Tick(h) ==
    /\ clock + h <= MaxClock
    /\ clock' = clock + h
    /\ UNCHANGED <<alerted_messages, alerted_deque, alerted_ids,
                   lastEmit, lastSend, bootAt, hitsSinceBoot, recentHits>>

IdleAlerts ==
    /\ clock = StartClock
    /\ alerted_messages = {}
    /\ alerted_deque = <<>>
    /\ alerted_ids = {}
    /\ lastEmit = [k \in AlertKeys |-> -1]
    /\ lastSend = NoSend
    /\ bootAt = -1
    /\ hitsSinceBoot = {}
    /\ recentHits = <<>>

\* ========================================================================
\* LLM: the credential-slot pool and _call_llm   (src/src/summarizer.py)
\* ========================================================================

VARIABLES
    ai_cfg,     \* config["ai"]: api_key, api_keys, max_concurrent_per_key
    key_queue,  \* Summarizer._key_queue, an asyncio.Queue of keys (FIFO)
    calls       \* per caller, its _call_llm call: where it stands, the
                \* attempt number, the key it holds, the outcomes of its
                \* attempts so far, and what it returned

llmVars == <<ai_cfg, key_queue, calls>>

\* Text is a sequence of characters.  CROSS stands for the one character
\* U+274C (the cross mark the error strings begin with).
CROSS == "[x]"

\* "❌ AI 代理返回错误: {status}" (cut after the first word)
Err4xx == <<CROSS, " ", "A", "I", " ", "4">>
\* "❌ AI代理服务端错误: {status}"
Err5xx == <<CROSS, " ", "A", "I", "5">>
\* "❌ LLM 调用失败，请检查网络或配置"
ErrGiveUp == <<CROSS, " ", "L", "L", "M">>

StartsWithCross(text) == Len(text) > 0 /\ text[1] = CROSS

\* how one HTTP attempt can end: a 200 with a reply, a 4xx other than 429,
\* a 429, a 5xx, a transport error (httpx.RequestError), or any other
\* exception (a body that is not the expected JSON)
Outcomes == {"ok", "4xx", "429", "5xx", "transport", "other"}

max_retries == 2

\* a loop body that gives up on the first 5xx, whatever the attempt
AfterAttemptNoRetry5xx(attempt, outcome, reply) ==
    CASE outcome = "ok" -> [do |-> "return", result |-> reply]
      [] outcome = "4xx" -> [do |-> "return", result |-> Err4xx]
      [] outcome = "429" ->
            IF attempt < max_retries
            THEN [do |-> "next", result |-> <<>>]
            ELSE [do |-> "giveup", result |-> ErrGiveUp]
      [] outcome = "5xx" -> [do |-> "return", result |-> Err5xx]
      [] OTHER ->
            IF attempt < max_retries
            THEN [do |-> "sleep", result |-> <<>>]
            ELSE [do |-> "giveup", result |-> ErrGiveUp]

\* a loop body that treats a 4xx like a transport error
AfterAttemptRetry4xx(attempt, outcome, reply) ==
    CASE outcome = "ok" -> [do |-> "return", result |-> reply]
      [] outcome = "429" ->
            IF attempt < max_retries
            THEN [do |-> "next", result |-> <<>>]
            ELSE [do |-> "giveup", result |-> ErrGiveUp]
      [] outcome = "5xx" /\ attempt >= 1 ->
            [do |-> "return", result |-> Err5xx]
      [] OTHER ->
            IF attempt < max_retries
            THEN [do |-> "sleep", result |-> <<>>]
            ELSE [do |-> "giveup", result |-> ErrGiveUp]

\* What the body of the for loop does after attempt number `attempt` ended
\* with `outcome`:
\*   "return"  leave _call_llm with `result`
\*   "next"    go straight to the next attempt (continue)
\*   "sleep"   sleep 2^attempt seconds, then the next attempt
\*   "giveup"  the loop is over: return ErrGiveUp
AfterAttempt(attempt, outcome, reply) ==
    CASE outcome = "ok" -> [do |-> "return", result |-> reply]
      [] outcome = "4xx" -> [do |-> "return", result |-> Err4xx]
      [] outcome = "429" ->
            IF attempt < max_retries
            THEN [do |-> "next", result |-> <<>>]
            ELSE [do |-> "giveup", result |-> ErrGiveUp]
      [] outcome = "5xx" /\ attempt >= 1 ->
            [do |-> "return", result |-> Err5xx]
      [] OTHER ->
            IF attempt < max_retries
            THEN [do |-> "sleep", result |-> <<>>]
            ELSE [do |-> "giveup", result |-> ErrGiveUp]

\* the configurations tried: (api_key, api_keys)
KeyConfigs ==
    { [api_key |-> "",   api_keys |-> <<>>],
      [api_key |-> "k0", api_keys |-> <<>>],
      [api_key |-> "k0", api_keys |-> <<"k1", "k2">>],
      [api_key |-> "",   api_keys |-> <<"k1", "k1">>],
      [api_key |-> "",   api_keys |-> <<"", "k1">>] }

\* Summarizer.__init__: self._keys (empty entries of api_keys are dropped)
EffectiveKeys(cfg) ==
    IF cfg.api_keys # <<>>
    THEN SelectSeq(cfg.api_keys, LAMBDA k : k # "")
    ELSE IF cfg.api_key # "" THEN <<cfg.api_key>>
    ELSE <<"">>

\* Summarizer.__init__: per_key_concurrency slots of every key, key by key
RECURSIVE InitialQueue(_, _)
InitialQueue(keys, c) ==
    IF keys = <<>> THEN <<>>
    ELSE [i \in 1..c |-> Head(keys)] \o InitialQueue(Tail(keys), c)

Callers == {"a", "b"}

NoKey == "<none>"
IdleCall == [pc |-> "idle", attempt |-> 0, api_key |-> NoKey,
             hist |-> <<>>, result |-> <<>>]

\* the reply of a successful attempt
Reply == <<"o", "k">>

\* a caller enters _call_llm
CallStart(c) ==
    /\ calls[c].pc \in {"idle", "done"}
    /\ calls' = [calls EXCEPT ![c] = [IdleCall EXCEPT !.pc = "get"]]
    /\ UNCHANGED <<ai_cfg, key_queue>>

\* api_key = await self._key_queue.get()
Acquire(c) ==
    /\ calls[c].pc = "get"
    /\ key_queue # <<>>
    /\ calls' = [calls EXCEPT ![c].pc = "http",
                              ![c].api_key = Head(key_queue)]
    /\ key_queue' = Tail(key_queue)
    /\ UNCHANGED ai_cfg

\* the finally clause alone: the key goes back to the queue
PutBack(q, key) == Append(q, key)

\* a leak: the key is put back only when the attempt succeeded
PutBackOnSuccessOnly(q, key, outcome) ==
    IF outcome = "ok" THEN Append(q, key) ELSE q

\* finally: self._key_queue.put_nowait(api_key)
Release(q, key, outcome) == PutBack(q, key)

\* the HTTP attempt ends with `outcome`; the finally clause puts the key
\* back, and the loop body decides what comes next
Respond(c, outcome) ==
    /\ calls[c].pc = "http"
    /\ LET a == AfterAttempt(calls[c].attempt, outcome, Reply)
       IN  calls' = [calls EXCEPT
                ![c].api_key = NoKey,
                ![c].hist = Append(@, outcome),
                ![c].result = a.result,
                ![c].attempt = IF a.do = "next" THEN @ + 1 ELSE @,
                ![c].pc = CASE a.do = "return" -> "done"
                            [] a.do = "giveup" -> "done"
                            [] a.do = "next" -> "get"
                            [] OTHER -> "sleep"]
    /\ key_queue' = Release(key_queue, calls[c].api_key, outcome)
    /\ UNCHANGED ai_cfg

\* await asyncio.sleep(2 ** attempt) is over: the next round of the loop
Wake(c) ==
    /\ calls[c].pc = "sleep"
    /\ calls' = [calls EXCEPT ![c].pc = "get", ![c].attempt = @ + 1]
    /\ UNCHANGED <<ai_cfg, key_queue>>

\* the caller's task is cancelled at one of its awaits; while the HTTP
\* request is awaited the finally clause still puts the key back
Cancel(c) ==
    /\ calls[c].pc \in {"get", "http", "sleep"}
    /\ calls' = [calls EXCEPT ![c].pc = "cancelled", ![c].api_key = NoKey]
    /\ key_queue' = IF calls[c].pc = "http"
                    THEN Release(key_queue, calls[c].api_key, "cancelled")
                    ELSE key_queue
    /\ UNCHANGED ai_cfg

IdleLLM ==
    /\ ai_cfg = [api_key |-> "", api_keys |-> <<>>, per_key |-> 1]
    /\ key_queue = InitialQueue(EffectiveKeys(ai_cfg), ai_cfg.per_key)
    /\ calls = [c \in Callers |-> IdleCall]

\* ========================================================================
\* SUMMARIZER: _clean_markdown, summarize, _summarize_chunked
\*                                                (src/src/summarizer.py)
\* ========================================================================

\* BULLET stands for the one character U+2022
BULLET == "(o)"

\* \s and \w of Python's re over the characters used here ("_" is a word
\* character; the cross mark and the bullet are neither)
Whitespace == {" ", "\t", "\n"}
WordChars == {"a", "b", "o", "k", "A", "I", "L", "M", "4", "5", "_"}

\* how many characters from position i on lie in S / lie outside S
RECURSIVE RunIn(_, _, _)
RunIn(s, i, S) ==
    IF i > Len(s) \/ s[i] \notin S THEN 0 ELSE 1 + RunIn(s, i + 1, S)

RECURSIVE RunNotIn(_, _, _)
RunNotIn(s, i, S) ==
    IF i > Len(s) \/ s[i] \in S THEN 0 ELSE 1 + RunNotIn(s, i + 1, S)

\* ^ under re.MULTILINE
AtLineStart(s, i) == i = 1 \/ s[i - 1] = "\n"

StartsAt(s, i, d) ==
    /\ i + Len(d) - 1 <= Len(s)
    /\ \A k \in 1..Len(d) : s[i + k - 1] = d[k]

\* re.sub over s from position i on: MatchEnd(s, i) is the position after
\* the leftmost match that starts at i (0: no match starts at i) and
\* Replacement(s, i) what the match is replaced with.  Every pattern below
\* matches at least one character.

\* 1. ^\s{0,3}#{1,6}\s+
HeadingEnd(s, i) ==
    LET k == RunIn(s, i, Whitespace)
        h == RunIn(s, i + k, {"#"})
        e == i + k + h
    IN  IF /\ AtLineStart(s, i)
           /\ k <= 3
           /\ h \in 1..6
           /\ e <= Len(s)
           /\ s[e] \in Whitespace
        THEN e + RunIn(s, e, Whitespace)
        ELSE 0

RECURSIVE SubHeading(_, _)
SubHeading(s, i) ==
    IF i > Len(s) THEN <<>>
    ELSE IF HeadingEnd(s, i) > 0 THEN SubHeading(s, HeadingEnd(s, i))
    ELSE <<s[i]>> \o SubHeading(s, i + 1)

\* 2. d(.+?)d under re.DOTALL, for a delimiter d: the nearest closing d that
\* leaves at least one character in the group; replaced by the group
ClosingAt(s, i, d) ==
    LET from == i + Len(d) + 1
        at == {k \in from..Len(s) : StartsAt(s, k, d)}
    IN  IF StartsAt(s, i, d) /\ at # {}
        THEN CHOOSE k \in at : \A x \in at : k <= x
        ELSE 0

RECURSIVE SubEmphasis(_, _, _)
SubEmphasis(s, i, d) ==
    IF i > Len(s) THEN <<>>
    ELSE LET c == ClosingAt(s, i, d)
         IN  IF c > 0
             THEN SubSeq(s, i + Len(d), c - 1)
                      \o SubEmphasis(s, c + Len(d), d)
             ELSE <<s[i]>> \o SubEmphasis(s, i + 1, d)

\* 3. ^[ \t]*[*\-+]\s+  ->  "• "
ListItemEnd(s, i) ==
    LET t == RunIn(s, i, {" ", "\t"})
        e == i + t
    IN  IF /\ AtLineStart(s, i)
           /\ e + 1 <= Len(s)
           /\ s[e] \in {"*", "-", "+"}
           /\ s[e + 1] \in Whitespace
        THEN e + 1 + RunIn(s, e + 1, Whitespace)
        ELSE 0

RECURSIVE SubListItem(_, _)
SubListItem(s, i) ==
    IF i > Len(s) THEN <<>>
    ELSE IF ListItemEnd(s, i) > 0
         THEN <<BULLET, " ">> \o SubListItem(s, ListItemEnd(s, i))
    ELSE <<s[i]>> \o SubListItem(s, i + 1)

\* BACKTICK stands for the one character U+0060
BACKTICK == "<bt>"

\* 4. BACKTICK{1,3}([^BACKTICK]+)BACKTICK{1,3}  ->  group 1
CodeOpen(s, i) == RunIn(s, i, {BACKTICK})
CodeGroup(s, i) == RunNotIn(s, i + CodeOpen(s, i), {BACKTICK})

CodeEnd(s, i) ==
    LET o == CodeOpen(s, i)
        g == CodeGroup(s, i)
        c == i + o + g
    IN  IF o \in 1..3 /\ g >= 1 /\ c <= Len(s)
        THEN c + (IF RunIn(s, c, {BACKTICK}) > 3 THEN 3 ELSE RunIn(s, c, {BACKTICK}))
        ELSE 0

RECURSIVE SubCode(_, _)
SubCode(s, i) ==
    IF i > Len(s) THEN <<>>
    ELSE IF CodeEnd(s, i) > 0
         THEN SubSeq(s, i + CodeOpen(s, i),
                     i + CodeOpen(s, i) + CodeGroup(s, i) - 1)
                  \o SubCode(s, CodeEnd(s, i))
    ELSE <<s[i]>> \o SubCode(s, i + 1)

\* 5. (?<!\w)x+(?!\w)  ->  ""   for x one of "*", "#": the whole run of x,
\* or the run less its last x when a word character follows the run
StrayEnd(s, i, x) ==
    LET r == RunIn(s, i, {x})
        e == i + r
    IN  IF r = 0 \/ (i > 1 /\ s[i - 1] \in WordChars) THEN 0
        ELSE IF e > Len(s) \/ s[e] \notin WordChars THEN e
        ELSE IF r >= 2 THEN e - 1
        ELSE 0

RECURSIVE SubStray(_, _, _)
SubStray(s, i, x) ==
    IF i > Len(s) THEN <<>>
    ELSE IF StrayEnd(s, i, x) > 0 THEN SubStray(s, StrayEnd(s, i, x), x)
    ELSE <<s[i]>> \o SubStray(s, i + 1, x)

\* 6. \n{3,}  ->  "\n\n"
RECURSIVE SubBlankLines(_, _)
SubBlankLines(s, i) ==
    IF i > Len(s) THEN <<>>
    ELSE IF RunIn(s, i, {"\n"}) >= 3
         THEN <<"\n", "\n">> \o SubBlankLines(s, i + RunIn(s, i, {"\n"}))
    ELSE <<s[i]>> \o SubBlankLines(s, i + 1)

\* str.strip()
Strip(s) ==
    LET lead == RunIn(s, 1, Whitespace)
        keep == {j \in 1..Len(s) : s[j] \notin Whitespace}
    IN  IF keep = {} THEN <<>> ELSE SubSeq(s, lead + 1, Max(keep))

\* Summarizer._clean_markdown
CleanMarkdown(text) ==
    IF text = <<>> THEN <<>>
    ELSE LET t1 == SubHeading(text, 1)
             t2 == SubEmphasis(t1, 1, <<"*", "*", "*">>)
             t3 == SubEmphasis(t2, 1, <<"*", "*">>)
             t4 == SubEmphasis(t3, 1, <<"_", "_">>)
             t5 == SubEmphasis(t4, 1, <<"*">>)
             t6 == SubEmphasis(t5, 1, <<"_">>)
             t7 == SubListItem(t6, 1)
             t8 == SubCode(t7, 1)
             t9 == SubStray(t8, 1, "*")
             t10 == SubStray(t9, 1, "#")
             t11 == SubBlankLines(t10, 1)
         IN  Strip(t11)

\* ------------------------------------------------------------------------
\* summarize and _summarize_chunked
\* ------------------------------------------------------------------------

VARIABLES
    sum_pc,        \* where the summarize call stands
    total,         \* len(messages) of the window read from the database
    save,          \* the save argument
    results,       \* what each chunk's _process_chunk returned, by chunk
    llm_calls,     \* the _call_llm calls made so far, in the order made
    final,         \* what the merge call returned
    chunked,       \* what _summarize_chunked returned
    summary,       \* what summarize returned
    summaries      \* the rows of table summaries

sumVars == <<sum_pc, total, save, results, llm_calls, final, chunked,
             summary, summaries>>

DEFAULT_CHUNK_SIZE == 300

\* the largest number of chunks a window is cut into
MaxChunks == 3

\* window sizes: none, one, at and past every multiple of the chunk size, and the
\* 650 messages of the large-window scenario
Windows ==
    {0, 1, 650}
        \cup {k * DEFAULT_CHUNK_SIZE : k \in 1..MaxChunks}
        \cup {k * DEFAULT_CHUNK_SIZE + 1 : k \in 1..(MaxChunks - 1)}

\* MAILBOX, WARNING stand for the one character U+1F4ED, U+26A0
MAILBOX == "[mailbox]"
WARNING == "[!]"

\* the fixed answers of summarize (cut after the first character)
NoMessages == <<MAILBOX>>
SummaryFailed == <<WARNING>>

\* what the model can answer on a 200: nothing, plain text, a heading, and
\* text that is markup only
Replies == {<<>>, Reply, <<"#", " ", "a">>, <<"#">>}

Pending == <<"<pending>">>

\* _call_llm as a function of how its attempts end: the loop of _call_llm
\* run over outs, outs[k] the outcome of attempt k - 1
RECURSIVE call_llm_from(_, _, _)
call_llm_from(outs, attempt, reply) ==
    LET a == AfterAttempt(attempt, outs[attempt + 1], reply)
    IN  IF a.do \in {"return", "giveup"}
        THEN a.result
        ELSE call_llm_from(outs, attempt + 1, reply)

call_llm(outs, reply) == call_llm_from(outs, 0, reply)

OutcomeRuns == [1..(max_retries + 1) -> Outcomes]

\* everything one _call_llm can return
CallResults ==
    {call_llm(outs, reply) : outs \in OutcomeRuns, reply \in Replies}

\* "\n\n---\n\n".join(parts)
Separator == <<"\n", "\n", "-", "-", "-", "\n", "\n">>

RECURSIVE Join(_)
Join(parts) ==
    IF parts = <<>> THEN <<>>
    ELSE IF Len(parts) = 1 THEN parts[1]
    ELSE parts[1] \o Separator \o Join(Tail(parts))

\* the head of merge_prompt (cut after the first word)
MergeHeader == <<"M", ":", "\n", "\n">>

Min(a, b) == IF a <= b THEN a ELSE b

\* range(0, total, chunk_size)
ChunkStarts(n) == {i \in 0..(n - 1) : i % DEFAULT_CHUNK_SIZE = 0}

\* a cut that drops the last, shorter chunk
ChunkCallsWholeOnly(n) ==
    [k \in 1..(n \div DEFAULT_CHUNK_SIZE) |->
        [kind |-> "chunk", lo |-> (k - 1) * DEFAULT_CHUNK_SIZE,
         hi |-> k * DEFAULT_CHUNK_SIZE, prompt |-> <<>>]]

\* the calls _process_chunk(i) makes for i in range(0, total, chunk_size),
\* each on messages[i:i + chunk_size] (lo inclusive, hi exclusive)
ChunkCalls(n) ==
    [k \in 1..Cardinality(ChunkStarts(n)) |->
        [kind |-> "chunk", lo |-> (k - 1) * DEFAULT_CHUNK_SIZE,
         hi |-> Min((k - 1) * DEFAULT_CHUNK_SIZE + DEFAULT_CHUNK_SIZE, n),
         prompt |-> <<>>]]

\* chunk_summaries = [r for r in results if r]
Truthy_text(r) == r # <<>>
chunk_summaries(res) == SelectSeq(res, Truthy_text)

\* the tail of summarize: _clean_markdown, save_summary when the cleaned
\* text is not empty and save is set, return
Finish(raw) ==
    /\ summary' = CleanMarkdown(raw)
    /\ summaries' =
          IF CleanMarkdown(raw) # <<>> /\ save
          THEN Append(summaries, [message_count |-> total,
                                  content |-> CleanMarkdown(raw)])
          ELSE summaries
    /\ sum_pc' = "done"

\* summarize up to its first _call_llm
summarize(n, sv) ==
    /\ sum_pc = "idle"
    /\ total' = n
    /\ save' = sv
    /\ UNCHANGED <<final, chunked, summaries>>
    /\ IF n = 0
       THEN /\ summary' = NoMessages
            /\ sum_pc' = "done"
            /\ UNCHANGED <<results, llm_calls>>
       ELSE IF n > DEFAULT_CHUNK_SIZE
       THEN /\ sum_pc' = "gather"
            /\ llm_calls' = ChunkCalls(n)
            /\ results' = [k \in 1..Len(ChunkCalls(n)) |-> Pending]
            /\ UNCHANGED summary
       ELSE /\ sum_pc' = "single"
            /\ llm_calls' = <<[kind |-> "single", lo |-> 0, hi |-> n,
                               prompt |-> <<>>]>>
            /\ UNCHANGED <<results, summary>>

\* the one call of a window that is not chunked returns res
SingleDone(res) ==
    /\ sum_pc = "single"
    /\ Finish(res)
    /\ UNCHANGED <<total, save, results, llm_calls, final, chunked>>

\* the _call_llm of chunk k returns res
ChunkDone(k, res) ==
    /\ sum_pc = "gather"
    /\ k \in DOMAIN results
    /\ results[k] = Pending
    /\ results' = [results EXCEPT ![k] = res]
    /\ UNCHANGED <<sum_pc, total, save, llm_calls, final, chunked, summary,
                   summaries>>

\* asyncio.gather returns: merge when more than one result is kept,
\* otherwise return the one kept or the failure text
Gathered ==
    /\ sum_pc = "gather"
    /\ \A k \in DOMAIN results : results[k] # Pending
    /\ UNCHANGED <<total, save, results, final>>
    /\ IF Len(chunk_summaries(results)) > 1
       THEN /\ llm_calls' = Append(llm_calls,
                  [kind |-> "merge", lo |-> 0, hi |-> 0,
                   prompt |-> MergeHeader \o Join(chunk_summaries(results))])
            /\ sum_pc' = "merge"
            /\ UNCHANGED <<chunked, summary, summaries>>
       ELSE /\ chunked' = IF chunk_summaries(results) # <<>>
                          THEN chunk_summaries(results)[1]
                          ELSE SummaryFailed
            /\ Finish(chunked')
            /\ UNCHANGED llm_calls

\* the merge call returns res: final or the joined chunk summaries
MergeDone(res) ==
    /\ sum_pc = "merge"
    /\ final' = res
    /\ chunked' = IF final' # <<>>
                  THEN final'
                  ELSE Join(chunk_summaries(results))
    /\ Finish(chunked')
    /\ UNCHANGED <<total, save, results, llm_calls>>

IdleSum ==
    /\ sum_pc = "idle"
    /\ total = 0
    /\ save = FALSE
    /\ results = <<>>
    /\ llm_calls = <<>>
    /\ final = <<>>
    /\ chunked = <<>>
    /\ summary = <<>>
    /\ summaries = <<>>

\* ========================================================================
\* SUMMARY JOBS: api_summary_generate, create_summary_job, update_summary_job
\*                         (src/src/dashboard.py, src/src/db/analytics.py)
\* ========================================================================

VARIABLES
    summary_jobs,     \* the job's row of table summary_jobs: status, progress
    job_mode,         \* the mode argument: "quick" or "per_group"
    run_pc,           \* where _run_summary stands
    run_result,       \* what the summarizer returned to _run_summary
    kids,             \* per coroutine handed to asyncio.gather, where it
                      \* stands
    processed_count   \* processed_chunks / processed_count of the summarizer

jobVars == <<summary_jobs, job_mode, run_pc, run_result, kids,
             processed_count>>

NoJob == [status |-> "none", progress |-> 0]

\* an argument of update_summary_job left at None
None == "None"
NoProgress == -1

\* the most coroutines one asyncio.gather of a run is given
MaxKids == 2

\* AnalyticsDAO.create_summary_job
create_summary_job == [status |-> "running", progress |-> 0]

\* AnalyticsDAO.update_summary_job on the job's row (status and progress of
\* the SET list; there is no condition on the row's current status)
update_summary_job(row, status, progress) ==
    [status |-> IF status = None THEN row.status ELSE status,
     progress |-> IF progress = NoProgress THEN row.progress ELSE progress]

\* progress_pct = int((current / max(total, 1)) * 100)
progress_pct(current, tot) == (current * 100) \div (IF tot > 1 THEN tot ELSE 1)

\* progress_cb(text, current, 10)
progress_cb(row, current) ==
    update_summary_job(row, None, progress_pct(current, 10))

\* the progress_cb calls of summarize and summarize_per_group outside the
\* gathered coroutines: the step reported and where the run goes on
WriteStep ==
    [q1 |-> [current |-> 1, next |-> "q_get_messages"],
     q5 |-> [current |-> 5, next |-> "q_call_llm"],
     q8 |-> [current |-> 8, next |-> "q_merge"],
     q9 |-> [current |-> 9, next |-> "q_save_summary"],
     q10 |-> [current |-> 10, next |-> "report"],
     g1 |-> [current |-> 1, next |-> "g_get_groups"],
     g2 |-> [current |-> 2, next |-> "g_count"],
     g3 |-> [current |-> 3, next |-> "g_gather"],
     g9 |-> [current |-> 9, next |-> "g_merge"]]

\* the awaited database calls of the two that neither branch nor gather
AwaitNext ==
    [q_save_summary |-> "q10",
     g_get_groups |-> "g2",
     g_save_summary |-> "report"]

\* what the summarizer can hand back: a text, an error text beginning with
\* the cross mark, or nothing
RunResults == {"text", "cross", "empty"}

\* POST /api/summary/generate: the row is created and _run_summary is
\* scheduled
api_summary_generate(mode) ==
    /\ run_pc = "idle"
    /\ summary_jobs' = create_summary_job
    /\ job_mode' = mode
    /\ run_pc' = IF mode = "per_group" THEN "g1" ELSE "q1"
    /\ UNCHANGED <<run_result, kids, processed_count>>

\* the exception of a gathered coroutine reaches _run_summary only while it
\* waits in gather
Raise(pc) == IF pc \in {"q_gather", "g_gather"} THEN "except" ELSE pc

\* a progress_cb call of the run itself; the database write may raise
MainWrite(ok) ==
    /\ run_pc \in DOMAIN WriteStep
    /\ IF ok
       THEN /\ summary_jobs' = progress_cb(summary_jobs,
                                           WriteStep[run_pc].current)
            /\ run_pc' = WriteStep[run_pc].next
       ELSE /\ run_pc' = "except"
            /\ UNCHANGED summary_jobs
    /\ kids' = IF ok /\ run_pc = "g3"
               THEN [k \in DOMAIN kids |-> "before"]
               ELSE kids
    /\ UNCHANGED <<job_mode, run_result, processed_count>>

\* an awaited database call of the run itself returns or raises
MainAwait(ok) ==
    /\ run_pc \in DOMAIN AwaitNext
    /\ run_pc' = IF ok THEN AwaitNext[run_pc] ELSE "except"
    /\ UNCHANGED <<summary_jobs, job_mode, run_result, kids,
                   processed_count>>

\* summarize: get_messages returns n = 0 for no message, 1 for a window of
\* at most DEFAULT_CHUNK_SIZE messages, otherwise the number of chunks
q_get_messages(ok, n) ==
    /\ run_pc = "q_get_messages"
    /\ processed_count' = 0
    /\ IF ~ok THEN /\ run_pc' = "except"
                   /\ UNCHANGED <<run_result, kids>>
       ELSE IF n = 0 THEN /\ run_pc' = "report"
                          /\ run_result' = "text"
                          /\ UNCHANGED kids
       ELSE IF n = 1 THEN /\ run_pc' = "q5"
                          /\ UNCHANGED <<run_result, kids>>
       ELSE /\ run_pc' = "q_gather"
            /\ kids' = [k \in 1..n |-> "llm"]
            /\ UNCHANGED run_result
    /\ UNCHANGED <<summary_jobs, job_mode>>

\* summarize_per_group: the message counts return n active groups
g_count(ok, n) ==
    /\ run_pc = "g_count"
    /\ processed_count' = 0
    /\ IF ~ok THEN /\ run_pc' = "except"
                   /\ UNCHANGED <<run_result, kids>>
       ELSE IF n = 0 THEN /\ run_pc' = "report"
                          /\ run_result' = "text"
                          /\ UNCHANGED kids
       ELSE /\ run_pc' = "g3"
            /\ kids' = [k \in 1..n |-> "unborn"]
            /\ UNCHANGED run_result
    /\ UNCHANGED <<summary_jobs, job_mode>>

\* a _call_llm of the run itself returns (the one call of a short window,
\* the merge call of either mode); the text is saved, with its progress
\* step, when it is not empty (summarize) or always (summarize_per_group)
MainLLMReturn(res) ==
    /\ run_pc \in {"q_call_llm", "q_merge", "g_merge"}
    /\ run_pc = "g_merge" => res # "empty"
    /\ run_result' = res
    /\ run_pc' = IF run_pc = "g_merge" THEN "g_save_summary"
                 ELSE IF res = "empty" THEN "q10" ELSE "q9"
    /\ UNCHANGED <<summary_jobs, job_mode, kids, processed_count>>

\* p = 2 + int((processed_chunks / n_chunks) * 5) in _process_chunk,
\* 3 + int((processed_count / total_active) * 5) in _process_single_group
KidStepNo(done) ==
    (IF job_mode = "per_group" THEN 3 ELSE 2) + ((done * 5) \div Len(kids))

\* a gathered coroutine's progress_cb call; the database write may raise
KidWrite(k, ok, done, next) ==
    /\ IF ok
       THEN /\ summary_jobs' = progress_cb(summary_jobs, KidStepNo(done))
            /\ kids' = [kids EXCEPT ![k] = next]
            /\ UNCHANGED run_pc
       ELSE /\ kids' = [kids EXCEPT ![k] = "raised"]
            /\ run_pc' = Raise(run_pc)
            /\ UNCHANGED summary_jobs
    /\ UNCHANGED <<job_mode, run_result>>

\* _process_single_group reports progress before reading the group's
\* messages and before calling the model
KidProgress(k, ok) ==
    /\ k \in DOMAIN kids
    /\ kids[k] \in {"before", "pllm"}
    /\ KidWrite(k, ok, processed_count,
                IF kids[k] = "before" THEN "read" ELSE "llm")
    /\ UNCHANGED processed_count

\* _process_single_group: get_messages returns or raises
KidRead(k, ok) ==
    /\ k \in DOMAIN kids
    /\ kids[k] = "read"
    /\ kids' = [kids EXCEPT ![k] = IF ok THEN "pllm" ELSE "raised"]
    /\ run_pc' = IF ok THEN run_pc ELSE Raise(run_pc)
    /\ UNCHANGED <<summary_jobs, job_mode, run_result, processed_count>>

\* the model call of a gathered coroutine returns: the counter goes up and
\* the progress is reported
KidLLMReturn(k, ok) ==
    /\ k \in DOMAIN kids
    /\ kids[k] = "llm"
    /\ processed_count' = processed_count + 1
    /\ KidWrite(k, ok, processed_count', "done")

\* asyncio.gather returns to the run once every coroutine has returned
Gathered_run(more, res) ==
    /\ run_pc \in {"q_gather", "g_gather"}
    /\ \A k \in DOMAIN kids : kids[k] = "done"
    /\ IF run_pc = "q_gather"
       THEN IF more
            THEN run_pc' = "q8" /\ UNCHANGED run_result
            ELSE /\ run_result' = res
                 /\ run_pc' = IF res = "empty" THEN "q10" ELSE "q9"
       ELSE IF more
            THEN run_pc' = "g9" /\ UNCHANGED run_result
            ELSE run_pc' = "report" /\ run_result' = "text"
    /\ UNCHANGED <<summary_jobs, job_mode, kids, processed_count>>

\* _run_summary after the summarizer returned: done with progress 100 for a
\* text that does not begin with the cross mark, error otherwise
Report(ok) ==
    /\ run_pc = "report"
    /\ IF ok
       THEN /\ summary_jobs' =
                  IF run_result = "text"
                  THEN update_summary_job(summary_jobs, "done", 100)
                  ELSE update_summary_job(summary_jobs, "error", NoProgress)
            /\ run_pc' = "end"
       ELSE /\ run_pc' = "except"
            /\ UNCHANGED summary_jobs
    /\ UNCHANGED <<job_mode, run_result, kids, processed_count>>

\* _run_summary: except Exception
Except(ok) ==
    /\ run_pc = "except"
    /\ summary_jobs' = IF ok
                       THEN update_summary_job(summary_jobs, "error",
                                               NoProgress)
                       ELSE summary_jobs
    /\ run_pc' = "end"
    /\ UNCHANGED <<job_mode, run_result, kids, processed_count>>

IdleJobs ==
    /\ summary_jobs = NoJob
    /\ job_mode = "quick"
    /\ run_pc = "idle"
    /\ run_result = "empty"
    /\ kids = <<>>
    /\ processed_count = 0

\* ========================================================================
\* MIGRATIONS: DatabaseConnection.connect, _run_migrations
\*                                                    (src/src/db/core.py)
\* ========================================================================

VARIABLES
    store_exists,    \* the database file exists
    links_columns,   \* which of the later-added columns table links has
    schema_version,  \* table schema_version: the versions, in rowid order
    mig              \* per process, its connect() call: where it stands,
                     \* the pending migrations left, whether the ledger was
                     \* complete when it read it, and how many migration
                     \* statements and ledger inserts it has run

migVars == <<store_exists, links_columns, schema_version, mig>>

\* MIGRATIONS: version and the column its ALTER TABLE links ADD COLUMN adds
\* ("": CREATE TABLE IF NOT EXISTS alerted_messages)
MIGRATIONS ==
    <<[version |-> 1, column |-> ""],
      [version |-> 2, column |-> "title"],
      [version |-> 3, column |-> "description"],
      [version |-> 4, column |-> "image_url"]>>

\* the columns of links in SCHEMA_SQL that the migrations add to an older
\* table
SchemaLinksColumns == {"title", "description", "image_url"}

\* the processes that open the store
Procs == {"collector", "dashboard"}

\* SELECT COALESCE(MAX(version), 0) FROM schema_version
CurrentVersion(ledger) == Max(Range(ledger) \cup {0})

\* a reading of the ledger that takes the version after the next as done
PendingSkipsOne(current) ==
    LET newer(m) == m.version > current + 1
    IN  SelectSeq(MIGRATIONS, newer)

\* pending = [(v, d, s) for v, d, s in MIGRATIONS if v > current], sorted
\* by version (MIGRATIONS is in version order)
PendingMigrations(current) ==
    LET newer(m) == m.version > current
    IN  SelectSeq(MIGRATIONS, newer)

\* INSERT OR IGNORE INTO schema_version (version, description)
InsertOrIgnoreVersion(ledger, v) ==
    IF v \in Range(ledger) THEN ledger ELSE Append(ledger, v)

Closed == [pc |-> "closed", todo |-> <<>>, full |-> FALSE, ran |-> 0,
           wrote |-> 0]

\* a store left by an older release: links without the later columns, the
\* ledger empty or with version 1 alone
OldStore(ledger) ==
    /\ ~store_exists
    /\ store_exists' = TRUE
    /\ links_columns' = {}
    /\ schema_version' = ledger
    /\ UNCHANGED mig

\* connect() up to the loop of _run_migrations: SCHEMA_SQL creates what is
\* missing (a table that exists is left as it is), then the ledger is read
connect(c) ==
    /\ mig[c].pc \in {"closed", "done", "raised"}
    /\ store_exists' = TRUE
    /\ links_columns' = IF store_exists THEN links_columns
                        ELSE SchemaLinksColumns
    /\ UNCHANGED schema_version
    /\ LET pending == PendingMigrations(CurrentVersion(schema_version))
       IN  mig' = [mig EXCEPT ![c] =
                     [pc |-> IF pending = <<>> THEN "done" ELSE "sql",
                      todo |-> pending,
                      full |-> CurrentVersion(schema_version)
                                  = MIGRATIONS[Len(MIGRATIONS)].version,
                      ran |-> 0,
                      wrote |-> 0]]

\* await self.conn.execute(sql) of the next pending migration: it runs,
\* fails with "duplicate column name", or (ok false) fails otherwise
ExecSql(c, ok) ==
    /\ mig[c].pc = "sql"
    /\ LET m == Head(mig[c].todo)
       IN  IF ~ok
           THEN /\ mig' = [mig EXCEPT ![c].pc = "raised"]
                /\ UNCHANGED links_columns
           ELSE IF m.column \in links_columns
           THEN /\ mig' = [mig EXCEPT ![c].pc = "ledger_dup"]
                /\ UNCHANGED links_columns
           ELSE /\ mig' = [mig EXCEPT ![c].pc = "ledger",
                                      ![c].ran = mig[c].ran + 1]
                /\ links_columns' =
                      links_columns \cup (IF m.column = "" THEN {}
                                          ELSE {m.column})
    /\ UNCHANGED <<store_exists, schema_version>>

\* the ledger insert and commit, of the try block or of the except branch;
\* when they fail (ok false) the call raises
WriteLedger(c, ok) ==
    /\ mig[c].pc \in {"ledger", "ledger_dup"}
    /\ IF ok
       THEN /\ schema_version' =
                  InsertOrIgnoreVersion(schema_version,
                                        Head(mig[c].todo).version)
            /\ mig' = [mig EXCEPT
                         ![c].pc = IF Len(mig[c].todo) = 1 THEN "done"
                                   ELSE "sql",
                         ![c].todo = Tail(mig[c].todo),
                         ![c].wrote = mig[c].wrote + 1]
       ELSE /\ mig' = [mig EXCEPT ![c].pc = "raised"]
            /\ UNCHANGED schema_version
    /\ UNCHANGED <<store_exists, links_columns>>

IdleMig ==
    /\ store_exists = FALSE
    /\ links_columns = {}
    /\ schema_version = <<>>
    /\ mig = [c \in Procs |-> Closed]

\* ========================================================================
\* STORE EDITS: update_message_text, delete_messages, cleanup_old_messages
\*                                   (src/src/db/messages.py, db/core.py)
\* ========================================================================

VARIABLES
    fts_totals,  \* the FTS5 index's totals: documents and tokens indexed
    last_op      \* the last edit operation run and the value it returned,
                 \* with the arguments of an update_message_text

editVars == <<fts_totals, last_op>>

\* how far below zero the totals of the index are followed
MaxDrift == 1

\* the highest rowid the inserts of an edit run may reach
MaxRowid == 3

\* the messages the edits are about: two messages of one chat
EditKeys == {<<1, 10>>, <<2, 10>>}

\* an edit may bring a text the inserts never offered
EditTexts == Texts \cup {"ok"}

\* how many tokens the FTS5 tokenizer finds in a text
NTokens(text) ==
    CASE text = "see http://x" -> 3
      [] text = "ok" -> 1
      [] OTHER -> 0

\* row["text"] or ""
OrEmpty(text) == IF Truthy(text) THEN text ELSE ""

\* msg["date"], stored as messages.date and as links.discovered_at: the
\* messages of a chat are numbered in the order of their dates
DateOf(id) == id

\* the values keep_days and the clock give the cutoff of a sweep
Cutoffs == {1, 2, 3}

\* the FTS5 index as one value: its entries and its totals
Fts(f, t) == [entries |-> f, nTotalRow |-> t.nTotalRow, size |-> t.size]

CurrentFts == Fts(messages_fts, fts_totals)

SetFts(x) ==
    /\ messages_fts' = x.entries
    /\ fts_totals' = [nTotalRow |-> x.nTotalRow, size |-> x.size]

\* INSERT INTO messages_fts(rowid, text, sender_name): the document is
\* indexed and counted
fts5_insert(x, rowid, text) ==
    [entries |-> Append(x.entries, [rowid |-> rowid, text |-> text]),
     nTotalRow |-> x.nTotalRow + 1,
     size |-> x.size + NTokens(text)]

\* INSERT INTO messages_fts(messages_fts, rowid, text, sender_name)
\* VALUES ('delete', ...) on an external-content index (content='messages'):
\* the tokens of the text given are taken out of the index for that rowid and
\* the totals are lowered; totals that are already too low make the command
\* raise, leaving the document's size entry with no tokens
fts5_delete(x, rowid, text) ==
    LET sz == NTokens(text)
        sizeLow == x.size < sz
        rowsLow == ~sizeLow /\ x.nTotalRow < 1
        err == sizeLow \/ rowsLow
        stripped == [i \in DOMAIN x.entries |->
                        IF x.entries[i].rowid = rowid /\ sz > 0
                           /\ x.entries[i].text = text
                        THEN [rowid |-> rowid, text |-> Null]
                        ELSE x.entries[i]]
    IN  [x |-> [entries |-> IF err
                            THEN stripped
                            ELSE SelectSeq(x.entries,
                                           LAMBDA e : e.rowid # rowid),
                nTotalRow |-> IF rowsLow THEN x.nTotalRow
                              ELSE x.nTotalRow - 1,
                size |-> x.size - sz],
         err |-> err]

\* the rows a statement visits, in the order of the primary-key index
RECURSIVE ById(_)
ById(rows) ==
    IF rows = {} THEN <<>>
    ELSE LET r == CHOOSE r \in rows : \A q \in rows : r.id <= q.id
         IN  <<r>> \o ById(rows \ {r})

\* delete_messages, the loop "for row in existing": one 'delete' command a
\* row, each in its own try; one that raises is passed over and what it wrote
\* stays in the transaction
RECURSIVE ManualFtsDeletes(_, _)
ManualFtsDeletes(x, rows) ==
    IF rows = <<>> THEN x
    ELSE ManualFtsDeletes(
            fts5_delete(x, Head(rows).rowid, OrEmpty(Head(rows).text)).x,
            Tail(rows))

\* trigger messages_ad: AFTER DELETE ON messages, a 'delete' command for
\* every row the statement deletes; the first that raises ends the statement
RECURSIVE FTS_TRIGGER_DELETE_SQL(_, _)
FTS_TRIGGER_DELETE_SQL(x, rows) ==
    IF rows = <<>> THEN [x |-> x, err |-> FALSE]
    ELSE LET d == fts5_delete(x, Head(rows).rowid, Head(rows).text)
         IN  IF d.err THEN d ELSE FTS_TRIGGER_DELETE_SQL(d.x, Tail(rows))

\* trigger messages_au: AFTER UPDATE ON messages WHEN new.text IS NOT
\* old.text, a 'delete' command for the old text, then the new document
FTS_TRIGGER_UPDATE_SQL(x, old, new_text) ==
    LET d == fts5_delete(x, old.rowid, old.text)
    IN  IF d.err THEN d
        ELSE [x |-> fts5_insert(d.x, old.rowid, new_text), err |-> FALSE]

NoOp == [op |-> "none", ids |-> {}, group_id |-> 0, text |-> Null,
         changed |-> FALSE, deleted |-> 0]

Op(op, ids, gid, text, changed, deleted) ==
    [op |-> op, ids |-> ids, group_id |-> gid, text |-> text,
     changed |-> changed, deleted |-> deleted]

\* MessagesDAO.insert_message run to its commit, the index totals kept
edit_insert(msg) ==
    /\ NewRowid(messages) <= MaxRowid
    /\ insert_message(msg, "none")
    /\ fts_totals' =
          IF HasKey(messages, msg.id, msg.group_id) THEN fts_totals
          ELSE [nTotalRow |-> fts_totals.nTotalRow + 1,
                size |-> fts_totals.size + NTokens(msg.text)]
    /\ last_op' = Op("insert", {}, 0, Null, FALSE, 0)

\* MessagesDAO.update_message_text: UPDATE ... WHERE id = ? AND group_id = ?
\* AND text IS NOT ?, commit, return rowcount > 0; an exception returns
\* False with nothing committed
update_message_text(msg_id, group_id, new_text) ==
    LET hit == {r \in messages : /\ r.id = msg_id
                                 /\ r.group_id = group_id
                                 /\ r.text # new_text}
    IN  /\ IF hit = {}
           THEN /\ committed' = CurrentView
                /\ last_op' = Op("update", {msg_id}, group_id, new_text,
                                 FALSE, 0)
                /\ UNCHANGED <<messages, links, messages_fts, fts_totals>>
           ELSE LET old == CHOOSE r \in hit : TRUE
                    t == FTS_TRIGGER_UPDATE_SQL(CurrentFts, old, new_text)
                    rows == (messages \ {old})
                                \cup {[old EXCEPT !.text = new_text]}
                IN  IF t.err
                    THEN /\ last_op' = Op("update", {msg_id}, group_id,
                                          new_text, FALSE, 0)
                         /\ UNCHANGED <<messages, links, messages_fts,
                                        fts_totals, committed>>
                    ELSE /\ messages' = rows
                         /\ SetFts(t.x)
                         /\ committed' = View(rows, links, t.x.entries)
                         /\ last_op' = Op("update", {msg_id}, group_id,
                                          new_text, TRUE, 0)
                         /\ UNCHANGED links
        /\ UNCHANGED <<batch, lastInsert>>

\* WHERE id IN (...) AND group_id = ?  (of the SELECT and of the DELETE)
ExistingRows(rows, msg_ids, group_id) ==
    {r \in rows : r.id \in msg_ids /\ r.group_id = group_id}

\* MessagesDAO.delete_messages: no ids or no stored row returns 0; else a
\* 'delete' command for each row found, then DELETE FROM messages (whose
\* trigger runs the same command again), commit, return rowcount; an
\* exception returns 0 with nothing committed. Table links is not touched.
delete_messages(msg_ids, group_id) ==
    LET existing == ExistingRows(messages, msg_ids, group_id)
        x1 == ManualFtsDeletes(CurrentFts, ById(existing))
        t == FTS_TRIGGER_DELETE_SQL(x1, ById(existing))
    IN  /\ fts_totals.nTotalRow > -MaxDrift
        /\ fts_totals.size > -MaxDrift
        /\ IF msg_ids = {} \/ existing = {}
           THEN /\ last_op' = Op("delete", {}, 0, Null, FALSE, 0)
                /\ UNCHANGED <<messages, links, messages_fts, fts_totals,
                               committed>>
           ELSE IF t.err
           THEN /\ SetFts(x1)
                /\ last_op' = Op("delete", {}, 0, Null, FALSE, 0)
                /\ UNCHANGED <<messages, links, committed>>
           ELSE /\ messages' = messages \ existing
                /\ SetFts(t.x)
                /\ committed' = View(messages \ existing, links, t.x.entries)
                /\ last_op' = Op("delete", {}, 0, Null, FALSE,
                                 Cardinality(existing))
                /\ UNCHANGED links
        /\ UNCHANGED <<batch, lastInsert>>

\* MessagesDAO.cleanup_old_messages: DELETE FROM links WHERE discovered_at <
\* cutoff, commit; DELETE FROM messages WHERE date < cutoff, commit; an
\* exception returns the count so far
cleanup_old_messages(cutoff) ==
    LET keptLinks == {l \in links : ~(DateOf(l.message_id) < cutoff)}
        old == {r \in messages : DateOf(r.id) < cutoff}
        t == FTS_TRIGGER_DELETE_SQL(CurrentFts, ById(old))
    IN  /\ links' = keptLinks
        /\ IF t.err
           THEN /\ committed' = View(messages, keptLinks, messages_fts)
                /\ last_op' = Op("cleanup", {}, 0, Null, FALSE, 0)
                /\ UNCHANGED <<messages, messages_fts, fts_totals>>
           ELSE /\ messages' = messages \ old
                /\ SetFts(t.x)
                /\ committed' = View(messages \ old, keptLinks, t.x.entries)
                /\ last_op' = Op("cleanup", {}, 0, Null, FALSE,
                                 Cardinality(old))
        /\ UNCHANGED <<batch, lastInsert>>

IdleEdits ==
    /\ fts_totals = [nTotalRow |-> 0, size |-> 0]
    /\ last_op = NoOp

\* ========================================================================
\* COLLECTOR: gap recovery                        (src/src/collector.py)
\* ========================================================================

VARIABLES
    now,        \* the clock, in ticks of SecondsPerTick seconds
    platform,   \* the messages the Platform has delivered to the groups
    db_rows,    \* table messages as the collectors fill it: id, group_id, date
    collectors  \* each tenant's Collector: where it is, its _last_msg_time,
                \* and the messages delivered since it left Live

gapVars == <<now, platform, db_rows, collectors>>

\* the clock stops here
MaxNow == 4

\* the clock is read every quarter of a minute; messages dated in the same
\* tick carry the same date
SecondsPerTick == 15

\* messages delivered in all
MaxDelivered == 3

\* if gap_seconds < 30: return
MinGapSeconds == 30

\* the tenants of the pool; their workers share one store
Tenants == {1, 2}

\* Collector._monitored_ids of each tenant
MonitoredIds(w) == IF w = 1 THEN {10} ELSE {20}

NoTime == -1

NewCollector == [pc |-> "new", last_msg_time |-> NoTime, missed |-> {},
                 walked |-> FALSE]

\* _message_to_dict: None for a service message (message.action is not None)
message_to_dict(m) ==
    IF m.action THEN {}
    ELSE {[id |-> m.id, group_id |-> m.group_id, date |-> m.date]}

\* insert_message / insert_messages_batch: INSERT OR IGNORE INTO messages
InsertOrIgnoreRows(rows, dicts) ==
    rows \cup {d \in dicts : ~HasKey(rows, d.id, d.group_id)}

\* AnalyticsDAO.get_date_range()["last_msg"]: MAX(date) over all of table
\* messages
LastMsg(rows) == IF rows = {} THEN NoTime ELSE Max({r.date : r \in rows})

\* _recover_one(gid): walk from offset_date=now towards older messages until
\* one has msg_time <= gap_start; the decoded ones are the batch
RecoverOne(gid, gap_start) ==
    UNION {message_to_dict(m) :
             m \in {p \in platform : /\ p.group_id = gid
                                     /\ p.date <= now
                                     /\ ~(p.date <= gap_start)}}

\* Collector._recover_gap, called with _last_msg_time = last: the rows and
\* the _last_msg_time it leaves, and whether it walked the groups; failed are
\* the groups whose _recover_one raised (logged, counted as 0)
recover_gap(w, last, failed) ==
    IF last = NoTime \/ (now - last) * SecondsPerTick < MinGapSeconds
    THEN [rows |-> db_rows, last |-> last, walked |-> FALSE]
    ELSE LET found == UNION {RecoverOne(gid, last) :
                                gid \in MonitoredIds(w) \ failed}
         IN  [rows |-> InsertOrIgnoreRows(db_rows, found),
              last |-> IF found # {} THEN now ELSE last,
              walked |-> failed = {}]

\* the clock moves on
Advance ==
    /\ now < MaxNow
    /\ now' = now + 1
    /\ UNCHANGED <<platform, db_rows, collectors>>

\* The Platform delivers a message to a group. A Live collector monitoring
\* the group runs on_new_message: a decoded message is inserted and its date
\* becomes _last_msg_time. A collector that has left Live misses it.
Deliver(gid, action) ==
    LET sent == {p \in platform : p.group_id = gid}
        m == [id |-> Cardinality(sent) + 1, group_id |-> gid, date |-> now,
              action |-> action]
        dicts == message_to_dict(m)
        live == \E w \in Tenants : /\ gid \in MonitoredIds(w)
                                   /\ collectors[w].pc = "live"
    IN  /\ Cardinality(platform) < MaxDelivered
        /\ platform' = platform \cup {m}
        /\ db_rows' = IF live THEN InsertOrIgnoreRows(db_rows, dicts)
                      ELSE db_rows
        /\ collectors' =
              [w \in Tenants |->
                 IF gid \notin MonitoredIds(w) \/ dicts = {}
                 THEN collectors[w]
                 ELSE IF collectors[w].pc = "live"
                 THEN [collectors[w] EXCEPT !.last_msg_time = m.date]
                 ELSE IF collectors[w].pc = "new"
                 THEN collectors[w]
                 ELSE [collectors[w] EXCEPT
                          !.missed = @ \cup {<<m.id, gid>>}]]
        /\ UNCHANGED now

\* Collector.start and run_realtime up to run_until_disconnected:
\* _init_last_msg_time reads the store, then _recover_gap
WorkerStart(w, failed) ==
    /\ collectors[w].pc \in {"new", "stopped"}
    /\ LET r == recover_gap(w, LastMsg(db_rows), failed)
       IN  /\ db_rows' = r.rows
           /\ collectors' = [collectors EXCEPT
                 ![w] = [@ EXCEPT !.pc = "live", !.last_msg_time = r.last,
                                  !.walked = r.walked]]
    /\ UNCHANGED <<now, platform>>

\* run_until_disconnected ends: the client lost its connection
Disconnect(w) ==
    /\ collectors[w].pc = "live"
    /\ collectors' = [collectors EXCEPT
          ![w] = [@ EXCEPT !.pc = "down", !.missed = {}, !.walked = FALSE]]
    /\ UNCHANGED <<now, platform, db_rows>>

\* the reconnect loop: connect() succeeded, then _recover_gap
Reconnect(w, failed) ==
    /\ collectors[w].pc = "down"
    /\ LET r == recover_gap(w, collectors[w].last_msg_time, failed)
       IN  /\ db_rows' = r.rows
           /\ collectors' = [collectors EXCEPT
                 ![w] = [@ EXCEPT !.pc = "live", !.last_msg_time = r.last,
                                  !.walked = r.walked]]
    /\ UNCHANGED <<now, platform>>

\* SessionWorker.stop / the process ends: the Collector object is gone
WorkerStop(w) ==
    /\ collectors[w].pc \in {"live", "down"}
    /\ collectors' = [collectors EXCEPT
          ![w] = [@ EXCEPT !.pc = "stopped", !.last_msg_time = NoTime,
                           !.missed = IF collectors[w].pc = "live" THEN {}
                                      ELSE @,
                           !.walked = FALSE]]
    /\ UNCHANGED <<now, platform, db_rows>>

IdleGap ==
    /\ now = 0
    /\ platform = {}
    /\ db_rows = {}
    /\ collectors = [w \in Tenants |-> NewCollector]

\* ========================================================================
\* COLLECTOR: the reconnect loop of run_realtime  (src/src/collector.py)
\* ========================================================================

VARIABLES
    rr_pc,            \* where run_realtime is
    reconnect_delay,  \* the local reconnect_delay
    is_connected,     \* client.is_connected()
    running,          \* Collector._running
    sleep_for,        \* the argument of the asyncio.sleep in progress
    attempt,          \* the last connection attempt: what became of it and
                      \* the delay it found
    caught,           \* the exception the except clause caught last, with
                      \* the delay it found
    gap_done          \* _recover_gap has returned since the connection was
                      \* last lost

rcVars == <<rr_pc, reconnect_delay, is_connected, running, sleep_for, attempt,
    caught, gap_done>>

\* reconnect_delay = 5
INITIAL_DELAY == 5

\* min(reconnect_delay * 2, 300)
MAX_DELAY == 300

\* FloodWaitError.seconds, as the Platform sets it
FloodSeconds == {7, 600}

\* what an await inside the try may raise
Raised == {"error", "FloodWaitError"}

NoAttempt == [result |-> "none", delay |-> 0]

NoneCaught == [e |-> "none", seconds |-> 0, delay |-> 0]

\* an except clause that sleeps the backoff delay on every exception
HandleBackoffOnly(e, seconds) ==
    /\ caught' = [e |-> e, seconds |-> seconds, delay |-> reconnect_delay]
    /\ IF ~running
       THEN /\ rr_pc' = "ended"
            /\ UNCHANGED sleep_for
       ELSE /\ rr_pc' = "backoff_sleep"
            /\ sleep_for' = reconnect_delay

\* a doubling that knows no cap
NextDelayUncapped(d) == d * 2

\* reconnect_delay = min(reconnect_delay * 2, 300)
NextDelay(d) == Min(d * 2, MAX_DELAY)

\* except Exception as e: a FloodWaitError sleeps e.seconds and continues;
\* anything else sleeps reconnect_delay and then doubles it
Handle(e, seconds) ==
    /\ caught' = [e |-> e, seconds |-> seconds, delay |-> reconnect_delay]
    /\ IF ~running
       THEN /\ rr_pc' = "ended"
            /\ UNCHANGED sleep_for
       ELSE IF e = "FloodWaitError"
       THEN /\ rr_pc' = "flood_sleep"
            /\ sleep_for' = seconds
       ELSE /\ rr_pc' = "backoff_sleep"
            /\ sleep_for' = reconnect_delay

\* while self._running: ... if not self.client.is_connected()
LoopTop ==
    /\ rr_pc = "loop"
    /\ rr_pc' = IF ~running THEN "ended"
                ELSE IF is_connected THEN "live" ELSE "connecting"
    /\ UNCHANGED <<reconnect_delay, is_connected, running, sleep_for, attempt,
                   caught, gap_done>>

\* await self.client.connect() raises
ConnectFails(e, seconds) ==
    /\ rr_pc = "connecting"
    /\ Handle(e, seconds)
    /\ attempt' = [result |-> IF e = "FloodWaitError" THEN "flood"
                              ELSE "failed",
                   delay |-> reconnect_delay]
    /\ UNCHANGED <<reconnect_delay, is_connected, running, gap_done>>

\* connect() returns and await self.client.is_user_authorized() raises
AuthorizedRaises(e, seconds) ==
    /\ rr_pc = "connecting"
    /\ is_connected' = TRUE
    /\ Handle(e, seconds)
    /\ attempt' = [result |-> "unchecked", delay |-> reconnect_delay]
    /\ UNCHANGED <<reconnect_delay, running, gap_done>>

\* connect() returns; an unauthorized account leaves the loop, an authorized
\* one resets the delay and runs _recover_gap
ConnectReturns(authorized) ==
    /\ rr_pc = "connecting"
    /\ is_connected' = TRUE
    /\ IF authorized
       THEN /\ reconnect_delay' = INITIAL_DELAY
            /\ rr_pc' = "recover"
            /\ attempt' = [result |-> "connected", delay |-> reconnect_delay]
       ELSE /\ rr_pc' = "ended"
            /\ attempt' = [result |-> "unauthorized",
                           delay |-> reconnect_delay]
            /\ UNCHANGED reconnect_delay
    /\ UNCHANGED <<running, sleep_for, caught, gap_done>>

\* await self._recover_gap() returns
RecoverReturns ==
    /\ rr_pc = "recover"
    /\ rr_pc' = "live"
    /\ gap_done' = TRUE
    /\ UNCHANGED <<reconnect_delay, is_connected, running, sleep_for, attempt,
                   caught>>

\* await self._recover_gap() raises
RecoverRaises(e, seconds) ==
    /\ rr_pc = "recover"
    /\ Handle(e, seconds)
    /\ UNCHANGED <<reconnect_delay, is_connected, running, attempt, gap_done>>

\* await self.client.run_until_disconnected() returns or raises: the
\* connection is lost
LiveEnds(e, seconds) ==
    /\ rr_pc = "live"
    /\ is_connected' = FALSE
    /\ IF e = "return"
       THEN /\ rr_pc' = "loop"
            /\ UNCHANGED <<sleep_for, caught>>
       ELSE Handle(e, seconds)
    /\ gap_done' = FALSE
    /\ UNCHANGED <<reconnect_delay, running, attempt>>

\* asyncio.sleep(wait_time) is over: continue
FloodSleepOver ==
    /\ rr_pc = "flood_sleep"
    /\ rr_pc' = "loop"
    /\ sleep_for' = 0
    /\ UNCHANGED <<reconnect_delay, is_connected, running, attempt, caught,
                   gap_done>>

\* asyncio.sleep(reconnect_delay) is over: the delay is doubled
BackoffSleepOver ==
    /\ rr_pc = "backoff_sleep"
    /\ rr_pc' = "loop"
    /\ sleep_for' = 0
    /\ reconnect_delay' = NextDelay(reconnect_delay)
    /\ UNCHANGED <<is_connected, running, attempt, caught, gap_done>>

\* Collector.stop: _running = False and the client is disconnected
CollectorStop ==
    /\ running
    /\ rr_pc # "ended"
    /\ running' = FALSE
    /\ is_connected' = FALSE
    /\ UNCHANGED <<rr_pc, reconnect_delay, sleep_for, attempt, caught,
                   gap_done>>

\* run_realtime has come to its loop: the client is connected and the
\* _recover_gap of the start has returned
IdleReconnect ==
    /\ rr_pc = "loop"
    /\ reconnect_delay = INITIAL_DELAY
    /\ is_connected = TRUE
    /\ running = TRUE
    /\ sleep_for = 0
    /\ attempt = NoAttempt
    /\ caught = NoneCaught
    /\ gap_done = TRUE

\* ========================================================================
\* LLM: a burst of concurrent _call_llm calls     (src/src/summarizer.py)
\* ========================================================================

VARIABLES
    slot_queue,  \* Summarizer._key_queue
    getters,     \* the callers suspended in _key_queue.get(), oldest first
    woken,       \* how many of them, from the head, a put has woken
    burst,       \* per call of the burst: where it is, its attempt, its key
    handed,      \* per key, how many times a get() has returned it
    retried      \* how many attempts of the burst ended in a retry

burstVars == <<slot_queue, getters, woken, burst, handed, retried>>

\* the attempts of one burst that may end in a retry
MaxRetried == 1

\* ai.api_keys and ai.max_concurrent_per_key of the burst
BurstKeys == <<"k1", "k2">>
BurstPerKey == 1

\* the calls of the burst: one more than M > 2 x len(keys) x C asks for
BurstSize == 2 * Len(BurstKeys) * BurstPerKey + 2

NewCall == [pc |-> "start", attempt |-> 0, api_key |-> NoKey]

\* asyncio.Queue.put_nowait: the item is queued and the oldest getter that
\* has not been woken yet is woken
PutNowait(q, key, w, waiting) ==
    [queue |-> Release(q, key, "any"),
     woken |-> IF w < Len(waiting) THEN w + 1 ELSE w]

\* await self._key_queue.get() by call c: a key that is there is taken at
\* once; with an empty queue the call joins the getters
QueueGet(c, q, w, waiting, calls_, counts) ==
    IF q # <<>>
    THEN /\ slot_queue' = Tail(q)
         /\ getters' = waiting
         /\ woken' = w
         /\ burst' = [calls_ EXCEPT ![c].pc = "http",
                                    ![c].api_key = Head(q)]
         /\ handed' = [counts EXCEPT ![Head(q)] = @ + 1]
    ELSE /\ slot_queue' = q
         /\ getters' = Append(waiting, c)
         /\ woken' = w
         /\ burst' = [calls_ EXCEPT ![c].pc = "get"]
         /\ handed' = counts

\* asyncio.gather starts the calls in order: call c enters _call_llm and
\* reaches its first get()
BurstEnter(c) ==
    /\ burst[c].pc = "start"
    /\ \A d \in 1..(c - 1) : burst[d].pc # "start"
    /\ QueueGet(c, slot_queue, woken, getters, burst, handed)
    /\ UNCHANGED retried

\* a woken getter runs: it takes the key at the head of the queue
BurstAcquire ==
    /\ woken > 0
    /\ slot_queue # <<>>
    /\ LET c == Head(getters)
       IN  /\ burst' = [burst EXCEPT ![c].pc = "http",
                                     ![c].api_key = Head(slot_queue)]
           /\ handed' = [handed EXCEPT ![Head(slot_queue)] = @ + 1]
    /\ slot_queue' = Tail(slot_queue)
    /\ getters' = Tail(getters)
    /\ woken' = woken - 1
    /\ UNCHANGED retried

\* a woken getter runs and finds the queue empty again (another call took
\* the key first): it waits anew, behind the others
BurstRequeue ==
    /\ woken > 0
    /\ slot_queue = <<>>
    /\ getters' = Append(Tail(getters), Head(getters))
    /\ woken' = woken - 1
    /\ UNCHANGED <<slot_queue, burst, handed, retried>>

\* the HTTP attempt of call c ends with `outcome` (no response comes in
\* before the event loop has started every call of the gather): the finally
\* clause puts the key back; a 429 goes on to the next get() without a pause
BurstRespond(c, outcome) ==
    /\ burst[c].pc = "http"
    /\ \A d \in 1..BurstSize : burst[d].pc # "start"
    /\ LET a == AfterAttempt(burst[c].attempt, outcome, Reply)
           p == PutNowait(slot_queue, burst[c].api_key, woken, getters)
           freed == [burst EXCEPT ![c].api_key = NoKey]
       IN  CASE a.do = "next" ->
                   /\ retried < MaxRetried
                   /\ retried' = retried + 1
                   /\ QueueGet(c, p.queue, p.woken, getters,
                               [freed EXCEPT ![c].attempt = @ + 1], handed)
             [] a.do = "sleep" ->
                   /\ retried < MaxRetried
                   /\ retried' = retried + 1
                   /\ slot_queue' = p.queue
                   /\ woken' = p.woken
                   /\ burst' = [freed EXCEPT ![c].pc = "sleep"]
                   /\ UNCHANGED <<getters, handed>>
             [] OTHER ->
                   /\ slot_queue' = p.queue
                   /\ woken' = p.woken
                   /\ burst' = [freed EXCEPT ![c].pc = "done"]
                   /\ UNCHANGED <<getters, handed, retried>>

\* await asyncio.sleep(2 ** attempt) is over: the next get()
BurstWake(c) ==
    /\ burst[c].pc = "sleep"
    /\ QueueGet(c, slot_queue, woken, getters,
                [burst EXCEPT ![c].attempt = @ + 1], handed)
    /\ UNCHANGED retried

IdleBurst ==
    /\ slot_queue = InitialQueue(BurstKeys, BurstPerKey)
    /\ getters = <<>>
    /\ woken = 0
    /\ burst = [c \in 1..BurstSize |-> NewCall]
    /\ handed = [k \in Range(BurstKeys) |-> 0]
    /\ retried = 0

\* ========================================================================
\* SUMMARIZER: _clean_markdown applied to its own result
\* ========================================================================

VARIABLES
    scrub_in,      \* the text handed to the first _clean_markdown call
    scrub_out      \* what each successive _clean_markdown call returned

scrubVars == <<scrub_in, scrub_out>>

\* longest input text
MaxScrubLen == 4

\* number of successive _clean_markdown calls
MaxPasses == 2

\* the characters the input texts are made of
ScrubChars == {"*", "_", "#", "-", BACKTICK, " ", "\n", "a"}

ScrubInputs == UNION {[1..n -> ScrubChars] : n \in 0..MaxScrubLen}

\* the text the next call is given: the input, then the last result
ScrubArg == IF scrub_out = <<>> THEN scrub_in ELSE scrub_out[Len(scrub_out)]

\* one call of Summarizer._clean_markdown
clean_markdown ==
    /\ Len(scrub_out) < MaxPasses
    /\ scrub_out' = Append(scrub_out, CleanMarkdown(ScrubArg))
    /\ UNCHANGED scrub_in

IdleScrub ==
    /\ scrub_in = <<>>
    /\ scrub_out = <<>>

\* ========================================================================
\* SESSION POOL: start_all, start_tenant, stop_tenant
\* ========================================================================

VARIABLES
    session_workers,  \* every SessionWorker object created so far
    pool_workers,     \* SessionPool._workers: tenant id -> worker, 0 if absent
    starts,           \* per tenant, the calls that stand before _start_tenant
    stops,            \* the stop_tenant calls: where each one stands
    stopped           \* the workers a stop_tenant call has returned for

poolVars == <<session_workers, pool_workers, starts, stops, stopped>>

\* SessionWorker objects created in one behaviour
MaxWorkers == 3

\* calls of one tenant waiting at the same time for the tenant table
MaxPending == 1

\* rows of table tenants, all of them active
PoolTenants == {1, 2}

\* tenant ids start_tenant and stop_tenant are called with
CalledIds == PoolTenants \cup {3}

StopCalls == {"s1", "s2"}

NoStop == [pc |-> "idle", tenant |-> 0, worker |-> 0]

\* SessionWorker.is_running; _task is set by start(), which every worker
\* has been through
is_running(w) == w._running /\ w.task # "done"

\* SessionWorker.__init__ followed by SessionWorker.start
\* connected: the TelegramClient that Collector.start creates is connected
NewWorker(tid) == [tenant |-> tid, _running |-> TRUE, _client |-> FALSE,
                   task |-> "alive", connected |-> FALSE]

\* start_all: one _start_tenant per active tenant is gathered
start_all ==
    /\ \A t \in PoolTenants : starts[t] < MaxPending
    /\ starts' = [t \in PoolTenants |-> starts[t] + 1]
    /\ UNCHANGED <<session_workers, pool_workers, stops, stopped>>

\* start_tenant up to its call of _start_tenant; an unknown id returns
start_tenant(tenant_id) ==
    /\ IF tenant_id \in PoolTenants
       THEN /\ starts[tenant_id] < MaxPending
            /\ starts' = [starts EXCEPT ![tenant_id] = @ + 1]
       ELSE UNCHANGED starts
    /\ UNCHANGED <<session_workers, pool_workers, stops, stopped>>

\* _start_tenant, with worker.start(), which never suspends
_start_tenant(tid) ==
    /\ starts[tid] > 0
    /\ starts' = [starts EXCEPT ![tid] = @ - 1]
    /\ IF pool_workers[tid] # 0
          /\ is_running(session_workers[pool_workers[tid]])
       THEN UNCHANGED <<session_workers, pool_workers>>
       ELSE /\ Len(session_workers) < MaxWorkers
            /\ session_workers' = Append(session_workers, NewWorker(tid))
            /\ pool_workers' =
                  [pool_workers EXCEPT ![tid] = Len(session_workers) + 1]
    /\ UNCHANGED <<stops, stopped>>

\* SessionWorker.stop from "if self._task" on, then stop_tenant's del when
\* the task is already done; del of a missing key raises KeyError
CancelOrFinish(ws, c, tid, w) ==
    IF ws[w].task # "done"
    THEN /\ session_workers' = [ws EXCEPT ![w].task = "cancelled"]
         /\ stops' = [stops EXCEPT ![c] =
                         [pc |-> "await_task", tenant |-> tid, worker |-> w]]
         /\ UNCHANGED <<pool_workers, stopped>>
    ELSE /\ session_workers' = ws
         /\ stops' = [stops EXCEPT ![c] =
                         IF pool_workers[tid] = 0
                         THEN [NoStop EXCEPT !.pc = "KeyError"]
                         ELSE NoStop]
         /\ pool_workers' = [pool_workers EXCEPT ![tid] = 0]
         /\ stopped' = IF pool_workers[tid] = 0 THEN stopped
                                                ELSE stopped \cup {w}

\* stop_tenant up to the first await of SessionWorker.stop
stop_tenant(c, tenant_id) ==
    /\ stops[c].pc \in {"idle", "KeyError"}
    /\ IF tenant_id \in PoolTenants /\ pool_workers[tenant_id] # 0
       THEN LET w == pool_workers[tenant_id]
                ws == [session_workers EXCEPT ![w]._running = FALSE]
            IN  IF ws[w]._client
                THEN /\ session_workers' = ws
                     /\ stops' = [stops EXCEPT ![c] =
                           [pc |-> "disconnect", tenant |-> tenant_id,
                            worker |-> w]]
                     /\ UNCHANGED <<pool_workers, stopped>>
                ELSE CancelOrFinish(ws, c, tenant_id, w)
       ELSE /\ stops' = [stops EXCEPT ![c] = NoStop]
            /\ UNCHANGED <<session_workers, pool_workers, stopped>>
    /\ UNCHANGED starts

\* await self._client.disconnect() is over: it returned, or it raised and
\* the exception was passed over with the connection as it was
Disconnected(c, raised) ==
    /\ stops[c].pc = "disconnect"
    /\ CancelOrFinish([session_workers EXCEPT
                          ![stops[c].worker]._client = FALSE,
                          ![stops[c].worker].connected = raised /\ @],
                      c, stops[c].tenant, stops[c].worker)
    /\ UNCHANGED starts

\* await self._task is over; stop_tenant goes on to its del
TaskAwaited(c) ==
    /\ stops[c].pc = "await_task"
    /\ session_workers[stops[c].worker].task = "done"
    /\ stops' = [stops EXCEPT ![c] =
                    IF pool_workers[stops[c].tenant] = 0
                    THEN [NoStop EXCEPT !.pc = "KeyError"]
                    ELSE NoStop]
    /\ pool_workers' = [pool_workers EXCEPT ![stops[c].tenant] = 0]
    /\ stopped' = IF pool_workers[stops[c].tenant] = 0 THEN stopped
                  ELSE stopped \cup {stops[c].worker}
    /\ UNCHANGED <<session_workers, starts>>

\* _run, in Collector.start: client.start() has connected and logged in
ClientStarts(w) ==
    /\ session_workers[w].task = "alive"
    /\ ~session_workers[w]._client
    /\ ~session_workers[w].connected
    /\ session_workers' = [session_workers EXCEPT ![w].connected = TRUE]
    /\ UNCHANGED <<pool_workers, starts, stops, stopped>>

\* _run: collector.start() has returned, self._client = collector.client
RunConnected(w) ==
    /\ session_workers[w].task = "alive"
    /\ ~session_workers[w]._client
    /\ session_workers[w].connected
    /\ session_workers' = [session_workers EXCEPT ![w]._client = TRUE]
    /\ UNCHANGED <<pool_workers, starts, stops, stopped>>

\* the connection of a live worker is lost: run_until_disconnected ends
ClientDrops(w) ==
    /\ session_workers[w].task = "alive"
    /\ session_workers[w]._client
    /\ session_workers[w].connected
    /\ session_workers' = [session_workers EXCEPT ![w].connected = FALSE]
    /\ UNCHANGED <<pool_workers, starts, stops, stopped>>

\* run_realtime: the loop finds the client not connected and connects it
RunReconnects(w) ==
    /\ session_workers[w].task = "alive"
    /\ session_workers[w]._client
    /\ ~session_workers[w].connected
    /\ session_workers' = [session_workers EXCEPT ![w].connected = TRUE]
    /\ UNCHANGED <<pool_workers, starts, stops, stopped>>

\* _run: except Exception
RunRaises(w) ==
    /\ session_workers[w].task = "alive"
    /\ session_workers' = [session_workers EXCEPT ![w]._running = FALSE,
                                                  ![w].task = "done"]
    /\ UNCHANGED <<pool_workers, starts, stops, stopped>>

\* _run: except asyncio.CancelledError
RunCancelled(w) ==
    /\ session_workers[w].task = "cancelled"
    /\ session_workers' = [session_workers EXCEPT ![w].task = "done"]
    /\ UNCHANGED <<pool_workers, starts, stops, stopped>>

IdlePool ==
    /\ session_workers = <<>>
    /\ pool_workers = [t \in PoolTenants |-> 0]
    /\ starts = [t \in PoolTenants |-> 0]
    /\ stops = [c \in StopCalls |-> NoStop]
    /\ stopped = {}

\* ========================================================================
\* COLLECTOR: the batch inserts of concurrent gap recoveries
\* ========================================================================

VARIABLES
    rec_pc,        \* per worker and group: where its _recover_one stands
    db_lock,       \* per worker: the group whose _recover_one holds the
                   \* _db_lock of the worker's running _recover_gap, or 0
    rec_runs       \* per worker: the _recover_gap calls made so far

lockVars == <<rec_pc, db_lock, rec_runs>>

\* _recover_gap calls of one worker (the start and the reconnects)
MaxRuns == 2

\* the groups each worker monitors
RecGroups == {10, 20}

\* _recover_gap past its early returns: _db_lock = asyncio.Lock(), then
\* gather starts one _recover_one per monitored group
recover_gap_start(w) ==
    /\ \A g \in RecGroups : rec_pc[w][g] = "idle"
    /\ rec_runs[w] < MaxRuns
    /\ rec_runs' = [rec_runs EXCEPT ![w] = @ + 1]
    /\ rec_pc' = [rec_pc EXCEPT ![w] = [g \in RecGroups |-> "fetch"]]
    /\ db_lock' = [db_lock EXCEPT ![w] = 0]

\* _recover_one: iter_messages is through (or raised): an empty batch, or an
\* exception, returns; a batch goes on to "async with _db_lock"
fetched(w, g, has_batch) ==
    /\ rec_pc[w][g] = "fetch"
    /\ rec_pc' = [rec_pc EXCEPT ![w][g] =
                     IF has_batch THEN "wait_lock" ELSE "done"]
    /\ UNCHANGED <<db_lock, rec_runs>>

\* async with _db_lock: the lock of this _recover_gap call is free
lock_acquired(w, g) ==
    /\ rec_pc[w][g] = "wait_lock"
    /\ db_lock[w] = 0
    /\ db_lock' = [db_lock EXCEPT ![w] = g]
    /\ rec_pc' = [rec_pc EXCEPT ![w][g] = "insert"]
    /\ UNCHANGED rec_runs

\* await self.db.insert_messages_batch(batch) is over; the lock is released
batch_inserted(w, g) ==
    /\ rec_pc[w][g] = "insert"
    /\ db_lock' = [db_lock EXCEPT ![w] = 0]
    /\ rec_pc' = [rec_pc EXCEPT ![w][g] = "done"]
    /\ UNCHANGED rec_runs

\* gather has every result: _recover_gap returns
recover_gap_returns(w) ==
    /\ \A g \in RecGroups : rec_pc[w][g] = "done"
    /\ rec_pc' = [rec_pc EXCEPT ![w] = [g \in RecGroups |-> "idle"]]
    /\ UNCHANGED <<db_lock, rec_runs>>

IdleLocks ==
    /\ rec_pc = [w \in Tenants |-> [g \in RecGroups |-> "idle"]]
    /\ db_lock = [w \in Tenants |-> 0]
    /\ rec_runs = [w \in Tenants |-> 0]

\* ========================================================================
\* STORE: what becomes of the rows of a batch that fails
\*                                                 (src/src/db/messages.py)
\* ========================================================================

VARIABLES
    batch_rows,    \* the rows the running insert_messages_batch has inserted
    failed_rows    \* the rows that insert_messages_batch calls which ended
                   \* in their except clause had inserted

trackVars == <<batch_rows, failed_rows>>

NoRows == [messages |-> {}, links |-> {}]

\* the messages offered here: two ids of one group, with and without a URL
TrackMsgs == {m \in Msgs : m.group_id = 10}

\* a live insert_message on the same connection, with its commit
live_insert(msg) ==
    /\ insert_message(msg, "none")
    /\ UNCHANGED trackVars

\* insert_messages_batch is entered
batch_start(n) ==
    /\ BatchStart(n)
    /\ batch_rows' = NoRows
    /\ UNCHANGED failed_rows

\* one round of its loop; the rows the round added are noted
batch_step(msg) ==
    /\ BatchStep(msg)
    /\ batch_rows' = [messages |-> batch_rows.messages
                                      \cup (messages' \ messages),
                      links |-> batch_rows.links \cup (links' \ links)]
    /\ UNCHANGED failed_rows

\* its commit
batch_commit ==
    /\ BatchCommit
    /\ batch_rows' = NoRows
    /\ UNCHANGED failed_rows

\* its except clause: the rows it had inserted are those of a failed batch
batch_fail ==
    /\ BatchFail
    /\ batch_rows' = NoRows
    /\ failed_rows' = [messages |-> failed_rows.messages
                                        \cup batch_rows.messages,
                       links |-> failed_rows.links \cup batch_rows.links]

IdleTrack ==
    /\ batch_rows = NoRows
    /\ failed_rows = NoRows

\* ========================================================================
\* COLLECTOR: the event handlers of run_realtime  (src/src/collector.py)
\* ========================================================================

VARIABLES
    ev_log,          \* the events delivered so far: what each handler did
    handler_raised   \* an exception has left a handler

evVars == <<ev_log, handler_raised>>

\* events delivered in one behaviour
MaxEvents == 3

\* the awaits of each handler, in the order the handler reaches them
HandlerSteps ==
    [new |-> <<"_message_to_dict", "insert_message", "check_message">>,
     edited |-> <<"get_chat", "update_message_text">>,
     deleted |-> <<"delete_messages">>]

EventKinds == DOMAIN HandlerSteps

\* where a handler run ends: it returns early ("skip": no msg_dict, a chat
\* that is not monitored, no deleted ids), it runs through ("none"), or
\* one of its awaits raises an Exception
EndPoints(kind) == {"skip", "none"} \cup Range(HandlerSteps[kind])

\* the awaits a run that ends at `at` has completed
StepsDone(kind, at) ==
    IF at = "skip" THEN <<>>
    ELSE IF at = "none" THEN HandlerSteps[kind]
    ELSE LET i == CHOOSE k \in 1..Len(HandlerSteps[kind]) :
                      HandlerSteps[kind][k] = at
         IN  SubSeq(HandlerSteps[kind], 1, i - 1)

\* a handler whose body stands outside any try
NoTry(at) == IF at \in {"skip", "none"} THEN "returned" ELSE "raised"

\* try: ... except Exception as e: logger.error(...)
TryExcept(at) == IF at \in {"skip", "none"} THEN "returned" ELSE "logged"

\* on_new_message, on_message_edited, on_message_deleted
on_event(kind, at) ==
    /\ Len(ev_log) < MaxEvents
    /\ at \in EndPoints(kind)
    /\ ev_log' = Append(ev_log, [kind |-> kind, at |-> at,
                                 done |-> StepsDone(kind, at),
                                 end |-> TryExcept(at)])
    /\ handler_raised' = (handler_raised \/ TryExcept(at) = "raised")

IdleEvents ==
    /\ ev_log = <<>>
    /\ handler_raised = FALSE

\* ========================================================================
\* COLLECTOR: on_message_deleted                  (src/src/collector.py)
\* ========================================================================

VARIABLES
    del_ev     \* the delete event handled last: its ids, its channel id
               \* (0: none), the group its messages belong to, the groups
               \* the handler has yet to try, and those that lost rows

delVars == <<del_ev>>

\* Collector._monitored_ids of the worker that gets the events
DelMonitored == {10, 20}

\* the groups with messages in the store (30: another tenant's)
DelGroups == {10, 20, 30}

\* one message id, carried by a message of every group
DelMsgs == {m \in [id : {1}, group_id : DelGroups, text : Texts] : TRUE}

\* event.deleted_ids
DelIdLists == {{}, {1}}

\* a handler that takes every channel for monitored
AnyChannel(channel_id) == TRUE

\* channel_id in self._monitored_ids
IsMonitored(channel_id) == channel_id \in DelMonitored

NoEvent == [pc |-> "idle", ids |-> {}, channel_id |-> 0, origin |-> 0,
            todo |-> {}, hit |-> {}]

\* a message reaches the store (of this worker or of another tenant's)
del_insert(msg) ==
    /\ del_ev.pc = "idle"
    /\ edit_insert(msg)
    /\ UNCHANGED del_ev

\* on_message_deleted up to its first await: no ids returns; a channel id
\* that is not monitored returns; a monitored one is deleted in; no channel
\* id starts the loop over the monitored groups
on_message_deleted(msg_ids, channel_id, origin) ==
    /\ del_ev.pc = "idle"
    /\ channel_id # 0 => origin = channel_id
    /\ channel_id = 0 => origin \in DelMonitored
    /\ LET ev == [pc |-> "idle", ids |-> msg_ids, channel_id |-> channel_id,
                  origin |-> origin, todo |-> {}, hit |-> {}]
       IN  IF msg_ids = {} \/ (channel_id # 0 /\ ~IsMonitored(channel_id))
           THEN /\ del_ev' = ev
                /\ UNCHANGED <<storeVars, editVars>>
           ELSE IF channel_id # 0
           THEN /\ delete_messages(msg_ids, channel_id)
                /\ del_ev' = [ev EXCEPT !.hit =
                                 IF last_op'.deleted > 0 THEN {channel_id}
                                 ELSE {}]
           ELSE /\ del_ev' = [ev EXCEPT !.pc = "loop", !.todo = DelMonitored]
                /\ UNCHANGED <<storeVars, editVars>>

\* for gid in self._monitored_ids: one round (a set is walked in any order)
delete_in_group(gid) ==
    /\ del_ev.pc = "loop"
    /\ gid \in del_ev.todo
    /\ delete_messages(del_ev.ids, gid)
    /\ del_ev' = [del_ev EXCEPT
                     !.todo = @ \ {gid},
                     !.pc = IF del_ev.todo = {gid} THEN "idle" ELSE "loop",
                     !.hit = IF last_op'.deleted > 0 THEN @ \cup {gid}
                             ELSE @]

IdleDelete ==
    /\ del_ev = NoEvent

\* ========================================================================
\* SETTINGS: the runtime switches and the live collector that reads them
\*   (src/src/db/settings.py, dashboard.py, collector.py, alerts.py)
\* ========================================================================

VARIABLES
    live_pc,        \* "off", or "running": run_realtime has started
    am_enabled,     \* AlertManager.enabled, from the file config
    cleanup_days,   \* the local cleanup_days of run_realtime
    settings,       \* table settings: key -> value, None when no row
    today,          \* datetime.now(timezone.utc), in days
    row_dates,      \* the dates (days) of the stored messages and links
    last_live,      \* the last live message handled, and what was read
    last_sweep      \* the last retention sweep, and what it used

liveVars == <<live_pc, am_enabled, cleanup_days, settings, today, row_dates,
              last_live, last_sweep>>

\* the sweeps the model follows
MaxDay == 3

\* monitoring.keep_days of the file config, and the values an operator sets
KeepDaysChoices == {1, 2}

\* the live messages the model follows: (group_id, id)
LiveMsgs == {<<10, 1>>, <<10, 2>>}

\* str(days): the decimal text of a one-digit number
StrOfInt(n) == <<n>>

\* int(val) of such a text
IntOfStr(v) == v[1]

\* "true" if value else "false"
StrOfBool(b) == IF b THEN "true" ELSE "false"

\* db_val.lower() == "true"
IsTrueText(v) == v = "true"

\* AlertManager.__init__ and the head of run_realtime read the file config
process_start(cfg_enabled, keep_days) ==
    /\ live_pc = "off"
    /\ live_pc' = "running"
    /\ am_enabled' = cfg_enabled
    /\ cleanup_days' = keep_days
    /\ UNCHANGED <<settings, today, row_dates, last_live, last_sweep>>

\* POST /api/alerts/toggle: set_setting_bool("alerts_enabled", enabled_bool)
api_alerts_toggle(enabled) ==
    /\ settings' = [settings EXCEPT !.alerts_enabled = StrOfBool(enabled)]
    /\ UNCHANGED <<live_pc, am_enabled, cleanup_days, today, row_dates,
                   last_live, last_sweep>>

\* POST /api/settings/retention: set_setting("retention_days", str(days))
api_set_retention(days) ==
    /\ settings' = [settings EXCEPT !.retention_days = StrOfInt(days)]
    /\ UNCHANGED <<live_pc, am_enabled, cleanup_days, today, row_dates,
                   last_live, last_sweep>>

\* the switch as check_message computes it: the setting when a row is read,
\* self.enabled when there is none or the read raises
EnabledAsRead(read_ok) ==
    IF read_ok /\ settings.alerts_enabled # None
    THEN IsTrueText(settings.alerts_enabled)
    ELSE am_enabled

\* on_new_message: if self.alert_manager.enabled: (the file config's value)
GateOpen(cfg_enabled) == cfg_enabled

\* on_new_message for a message with key `key`: the row is stored, then
\* check_message runs when the gate is open
on_new_message(key, matched, read_ok) ==
    /\ live_pc = "running"
    /\ row_dates' = row_dates \cup {today}
    /\ IF GateOpen(am_enabled)
       THEN check_message(key, EnabledAsRead(read_ok), matched)
       ELSE UNCHANGED alertVars
    /\ last_live' = [key |-> key, matched |-> matched,
                     read_ok |-> read_ok,
                     setting |-> settings.alerts_enabled,
                     known |-> key \in alerted_ids,
                     alerted |-> alerted_deque' # alerted_deque]
    /\ UNCHANGED <<live_pc, am_enabled, cleanup_days, settings, today,
                   last_sweep>>

\* what MessagesDAO.cleanup_old_messages(keep_days) leaves: the rows of
\* links and of messages dated before now - keep_days are deleted
SweptRows(rows, day, keep_days) ==
    {d \in rows : ~(d < day - keep_days)}

\* one round of _daily_cleanup: sleep 24 h, then the sweep with cleanup_days
daily_cleanup ==
    /\ live_pc = "running"
    /\ today < MaxDay
    /\ today' = today + 1
    /\ row_dates' = SweptRows(row_dates, today', cleanup_days)
    /\ last_sweep' = [ran |-> TRUE, setting |-> settings.retention_days,
                      keep_days |-> cleanup_days,
                      before |-> row_dates, day |-> today']
    /\ UNCHANGED <<live_pc, am_enabled, cleanup_days, settings, last_live>>

NoLive == [key |-> <<>>, matched |-> FALSE, read_ok |-> TRUE,
           setting |-> None, known |-> FALSE, alerted |-> FALSE]

NoSweep == [ran |-> FALSE, setting |-> None, keep_days |-> 0,
            before |-> {}, day |-> 0]

IdleLive ==
    /\ live_pc = "off"
    /\ am_enabled = FALSE
    /\ cleanup_days = 0
    /\ settings = [alerts_enabled |-> None, retention_days |-> None]
    /\ today = 0
    /\ row_dates = {}
    /\ last_live = NoLive
    /\ last_sweep = NoSweep

\* ========================================================================
\* ALERT PRUNE: cleanup_old_alerts over the alerted_messages table
\*   (src/src/db/alerts.py, collector.py)
\* ========================================================================

\* the hours the prune is followed for
MaxPruneClock == 72

\* the messages alerted while the prune is followed
PruneMsgs == {<<10, 1>>, <<10, 2>>}

\* AlertsDAO.cleanup_old_alerts(keep_hours):
\*   DELETE FROM alerted_messages WHERE alerted_at < cutoff
cleanup_old_alerts(keep_hours) ==
    LET cutoff == IsoFormat(clock - keep_hours)
    IN  /\ alerted_messages' =
              {r \in alerted_messages : ~TextLess(r.alerted_at, cutoff)}
        /\ UNCHANGED <<clock, alerted_deque, alerted_ids, lastEmit, lastSend,
                       bootAt, hitsSinceBoot, recentHits>>

\* time passes
PruneTick(h) ==
    /\ clock + h <= MaxPruneClock
    /\ clock' = clock + h
    /\ UNCHANGED <<alerted_messages, alerted_deque, alerted_ids,
                   lastEmit, lastSend, bootAt, hitsSinceBoot, recentHits>>

\* ========================================================================
\* JOB VERDICT: what _run_summary records for what the summarizer returns
\*   (src/src/dashboard.py, src/src/summarizer.py)
\* ========================================================================

VARIABLES
    vd_pc,       \* "idle", "running", "returned", "end"
    vd_mode,     \* "quick" or "per_group"
    vd_units,    \* what the _call_llm of each chunk / each group returns
    vd_merge,    \* what the merge call returns, when it is made
    vd_result,   \* what summarize / summarize_per_group returned
    vd_job       \* the job's row: status, result, error_msg

verdictVars == <<vd_pc, vd_mode, vd_units, vd_merge, vd_result, vd_job>>

\* the most chunks / active groups of a run
MaxUnits == 2

\* PIN stands for the one character U+1F4CC, RULE for the run of U+2500
PIN == "[pin]"
RULE == "[-]"

\* what one _call_llm hands back here: nothing, a reply, an error text
UnitResults == {<<>>, Reply, Err4xx, ErrGiveUp}

UnitRuns == UNION {[1..n -> UnitResults] : n \in 0..MaxUnits}

\* title = group_map.get(gid, ...) (cut to one character)
GroupTitle(k) == <<"a">>

\* _process_single_group: f"📌 {title}\n\n{summary}" if summary else None
GroupSummary(k, res) ==
    IF res # <<>> THEN <<PIN, " ">> \o GroupTitle(k) \o <<"\n", "\n">> \o res
    ELSE <<>>

\* "\n\n────────\n\n".join(parts)
GroupSeparator == <<"\n", "\n", RULE, "\n", "\n">>

RECURSIVE JoinGroups(_)
JoinGroups(parts) ==
    IF parts = <<>> THEN <<>>
    ELSE IF Len(parts) = 1 THEN parts[1]
    ELSE parts[1] \o GroupSeparator \o JoinGroups(Tail(parts))

\* summarize on a window of no message (no unit), of at most
\* DEFAULT_CHUNK_SIZE messages (one unit) or of several chunks
QuickResult(units, merge) ==
    IF units = <<>> THEN NoMessages
    ELSE IF Len(units) = 1 THEN CleanMarkdown(units[1])
    ELSE LET cs == chunk_summaries(units)
         IN  CleanMarkdown(
                 IF Len(cs) > 1
                 THEN (IF merge # <<>> THEN merge ELSE Join(cs))
                 ELSE IF cs # <<>> THEN cs[1] ELSE SummaryFailed)

\* group_summaries = [r for r in results if r]
group_summaries(units) ==
    SelectSeq([k \in DOMAIN units |-> GroupSummary(k, units[k])],
              Truthy_text)

\* summarize_per_group over active groups of at most DEFAULT_CHUNK_SIZE
\* messages each
PerGroupResult(units, merge) ==
    IF units = <<>> THEN NoMessages
    ELSE LET gs == group_summaries(units)
         IN  IF gs = <<>> THEN SummaryFailed
             ELSE CleanMarkdown(
                      IF Len(gs) > 1
                      THEN (IF merge # <<>> THEN merge ELSE JoinGroups(gs))
                      ELSE gs[1])

NoVerdict == [status |-> "none", result |-> <<>>, error_msg |-> <<>>]

\* "LLM 返回空结果，请检查 AI 代理是否在线" (cut after the first word)
EmptyResultMsg == <<"L", "L", "M">>

\* f"{type(e).__name__}: {str(e)[:300]}" (cut to the first character)
ExceptionMsg == <<"E">>

\* POST /api/summary/generate: the row is created, _run_summary scheduled
job_created(mode, units, merge) ==
    /\ vd_pc = "idle"
    /\ vd_pc' = "running"
    /\ vd_mode' = mode
    /\ vd_units' = units
    /\ vd_merge' = merge
    /\ vd_job' = [NoVerdict EXCEPT !.status = "running"]
    /\ UNCHANGED vd_result

\* the summarizer returns to _run_summary, or raises and the except clause
\* records the error
summarizer_returns(raised) ==
    /\ vd_pc = "running"
    /\ IF raised
       THEN /\ vd_job' = [vd_job EXCEPT !.status = "error",
                                         !.error_msg = ExceptionMsg]
            /\ vd_pc' = "end"
            /\ UNCHANGED vd_result
       ELSE /\ vd_result' = IF vd_mode = "per_group"
                            THEN PerGroupResult(vd_units, vd_merge)
                            ELSE QuickResult(vd_units, vd_merge)
            /\ vd_pc' = "returned"
            /\ UNCHANGED vd_job
    /\ UNCHANGED <<vd_mode, vd_units, vd_merge>>

\* if result and not result.startswith(cross mark): done, else error
report_job ==
    /\ vd_pc = "returned"
    /\ vd_job' =
          IF vd_result # <<>> /\ ~StartsWithCross(vd_result)
          THEN [vd_job EXCEPT !.status = "done", !.result = vd_result]
          ELSE [vd_job EXCEPT !.status = "error",
                              !.error_msg = IF vd_result # <<>>
                                            THEN vd_result
                                            ELSE EmptyResultMsg]
    /\ vd_pc' = "end"
    /\ UNCHANGED <<vd_mode, vd_units, vd_merge, vd_result>>

IdleVerdict ==
    /\ vd_pc = "idle"
    /\ vd_mode = "quick"
    /\ vd_units = <<>>
    /\ vd_merge = <<>>
    /\ vd_result = <<>>
    /\ vd_job = NoVerdict

\* ========================================================================
\* ALERT FAN-OUT: one AlertManager per worker of the pool
\*   (src/src/session_pool.py, collector.py, alerts.py)
\* ========================================================================

VARIABLES
    fan_mgr,      \* per worker, its AlertManager: _alerted_ids, _alerted_deque
    fan_pending,  \* the handlers that wait in check_message: (worker, key)
    fan_table,    \* the msg_key column of table alerted_messages (shared)
    fan_sent,     \* per key, the notifications sent
    fan_last      \* the last notification: worker, key, who held the key

fanVars == <<fan_mgr, fan_pending, fan_table, fan_sent, fan_last>>

\* the workers of the pool; each runs Collector(cfg, db) of its own
FanWorkers == {1, 2}

\* the keys of the messages ingested
FanKeys == {MsgKey(<<10, 1>>), MsgKey(<<10, 2>>), MsgKey(<<10, 3>>)}

\* the most notifications followed per key, and handlers in flight
MaxSent == 2
MaxInFlight == 2

NoFan == [worker |-> 0, key |-> <<>>, holders |-> {}]

\* the workers whose manager holds the key in its de-duplication set
KeyHolders(mgrs, key) == {w \in FanWorkers : key \in mgrs[w].ids}

\* SessionWorker._run: collector = Collector(cfg, db); Collector.__init__:
\* self.alert_manager = AlertManager(config, db=db)
ManagerOf(w) == w

\* on_new_message of worker w reaches check_message for a matching message
\* and awaits get_setting
fan_ingest(w, key) ==
    /\ Cardinality(fan_pending) < MaxInFlight
    /\ <<w, key>> \notin fan_pending
    /\ fan_sent[key] < MaxSent
    /\ fan_pending' = fan_pending \cup {<<w, key>>}
    /\ UNCHANGED <<fan_mgr, fan_table, fan_sent, fan_last>>

\* check_message from the de-duplication test to _send_alert: no await
\* stands between the test and the insertion into the set and the deque
fan_check(w, key) ==
    /\ <<w, key>> \in fan_pending
    /\ fan_pending' = fan_pending \ {<<w, key>>}
    /\ LET m == ManagerOf(w)
           mgr == fan_mgr[m]
       IN  IF key \in mgr.ids
           THEN UNCHANGED <<fan_mgr, fan_table, fan_sent, fan_last>>
           ELSE /\ fan_mgr' = [fan_mgr EXCEPT ![m] =
                      [ids |-> (IF Len(mgr.deque) = DequeMaxLen
                                THEN mgr.ids \ {mgr.deque[1]}
                                ELSE mgr.ids) \cup {key},
                       deque |-> DequeAppend(mgr.deque, key)]]
                /\ fan_table' = fan_table \cup {key}
                /\ fan_sent' = [fan_sent EXCEPT ![key] = @ + 1]
                /\ fan_last' = [worker |-> w, key |-> key,
                                holders |-> KeyHolders(fan_mgr, key)]

IdleFan ==
    /\ fan_mgr = [w \in FanWorkers |-> [ids |-> {}, deque |-> <<>>]]
    /\ fan_pending = {}
    /\ fan_table = {}
    /\ fan_sent = [k \in FanKeys |-> 0]
    /\ fan_last = NoFan

\* ========================================================================
\* SWEEPER: the _daily_cleanup task of run_realtime
\*   (src/src/collector.py, src/src/session_pool.py)
\* ========================================================================

VARIABLES
    rt_pc,         \* run_realtime: "off", "live", "connecting", "backoff",
                   \* "closing", "ended", "cancelled"
    col_running,   \* Collector._running
    cleanup_task,  \* "none", "sleeping", "sweeping", "cancel_requested",
                   \* "cancelled", "done"
    end_reason,    \* why run_realtime left its loop
    sweeps,        \* the sweeps made while run_realtime runs
    late_sweeps    \* the sweeps made after run_realtime has ended

sweepVars == <<rt_pc, col_running, cleanup_task, end_reason, sweeps,
               late_sweeps>>

\* the sweeps followed
MaxSweeps == 3

InLoop == {"live", "connecting", "backoff"}

Over == {"ended", "cancelled"}

\* run_realtime up to its loop: self._running = True, the sweeper is created
rt_start ==
    /\ rt_pc = "off"
    /\ rt_pc' = "live"
    /\ col_running' = TRUE
    /\ cleanup_task' = "sleeping"
    /\ UNCHANGED <<end_reason, sweeps, late_sweeps>>

\* the connection is lost: run_until_disconnected returns or raises and the
\* loop comes round (after the backoff when it raised)
rt_disconnected(raised) ==
    /\ rt_pc = "live"
    /\ col_running
    /\ rt_pc' = IF raised THEN "backoff" ELSE "connecting"
    /\ UNCHANGED <<col_running, cleanup_task, end_reason, sweeps,
                   late_sweeps>>

\* the backoff sleep is over
rt_backoff_over ==
    /\ rt_pc = "backoff"
    /\ col_running
    /\ rt_pc' = "connecting"
    /\ UNCHANGED <<col_running, cleanup_task, end_reason, sweeps,
                   late_sweeps>>

\* a task cancel() was called on, at the await it stands at
Cancelled(task) ==
    IF task \in {"sleeping", "sweeping"} THEN "cancel_requested" ELSE task

\* the lines after the loop: self._running = False, cleanup_task.cancel()
AfterLoop(reason) ==
    /\ rt_pc' = "closing"
    /\ col_running' = FALSE
    /\ cleanup_task' = Cancelled(cleanup_task)
    /\ end_reason' = reason
    /\ UNCHANGED <<sweeps, late_sweeps>>

\* connect() returned: the session is authorized and the loop goes on, or
\* it is not and the loop breaks
rt_connected(authorized) ==
    /\ rt_pc = "connecting"
    /\ IF authorized
       THEN /\ col_running
            /\ rt_pc' = "live"
            /\ UNCHANGED <<col_running, cleanup_task, end_reason, sweeps,
                           late_sweeps>>
       ELSE AfterLoop("unauthorized")

\* Collector.stop: self._running = False, then the client is disconnected
collector_stop ==
    /\ rt_pc \in InLoop
    /\ col_running
    /\ col_running' = FALSE
    /\ UNCHANGED <<rt_pc, cleanup_task, end_reason, sweeps, late_sweeps>>

\* the loop finds self._running false, at its test or in its except clause
rt_loop_ends ==
    /\ rt_pc \in InLoop
    /\ ~col_running
    /\ AfterLoop("stop")

\* await cleanup_task returns with the sweeper cancelled
rt_closed ==
    /\ rt_pc = "closing"
    /\ rt_pc' = "ended"
    /\ cleanup_task' = IF cleanup_task = "cancel_requested" THEN "cancelled"
                       ELSE cleanup_task
    /\ UNCHANGED <<col_running, end_reason, sweeps, late_sweeps>>

\* SessionWorker.stop cancels the worker task: CancelledError is raised at
\* the await run_realtime stands at and passes its except Exception
rt_task_cancelled ==
    /\ rt_pc \in InLoop
    /\ rt_pc' = "cancelled"
    /\ end_reason' = "cancel"
    /\ UNCHANGED <<col_running, cleanup_task, sweeps, late_sweeps>>

\* _daily_cleanup: the 24 h sleep is over, the flag is tested
sweeper_wakes ==
    /\ cleanup_task = "sleeping"
    /\ sweeps + late_sweeps < MaxSweeps
    /\ cleanup_task' = IF col_running THEN "sweeping" ELSE "done"
    /\ UNCHANGED <<rt_pc, col_running, end_reason, sweeps, late_sweeps>>

\* _daily_cleanup: cleanup_old_messages and cleanup_old_alerts have run
sweeper_sweeps ==
    /\ cleanup_task = "sweeping"
    /\ cleanup_task' = "sleeping"
    /\ IF rt_pc \in Over
       THEN late_sweeps' = late_sweeps + 1 /\ UNCHANGED sweeps
       ELSE sweeps' = sweeps + 1 /\ UNCHANGED late_sweeps
    /\ UNCHANGED <<rt_pc, col_running, end_reason>>

IdleSweep ==
    /\ rt_pc = "off"
    /\ col_running = FALSE
    /\ cleanup_task = "none"
    /\ end_reason = "none"
    /\ sweeps = 0
    /\ late_sweeps = 0

\* ========================================================================
\* WINDOW FORMATTING: _format_messages inside summarize and
\*   summarize_per_group  (src/src/summarizer.py, db/messages.py)
\* ========================================================================

VARIABLES
    fmt_pc,       \* "idle", "called" (the window is read), "over"
    fmt_mode,     \* "quick" (summarize) or "per_group"
    fmt_window,   \* the rows get_messages returns, ORDER BY date
    fmt_out       \* how the call ended: a returned string or an exception

fmtVars == <<fmt_pc, fmt_mode, fmt_window, fmt_out>>

\* the most rows of a window here (below DEFAULT_CHUNK_SIZE)
MaxWindow == 2

\* if len(text) > 500: text[:250] + marker + text[-250:]
CutOver == 500
CutKeep == 250

\* a column value of a row: NULL (None in the dict) or a string
PyNone == [none |-> TRUE, s |-> <<>>]
PyStr(s) == [none |-> FALSE, s |-> s]

LongText == [i \in 1..(CutOver + 1) |-> "x"]

\* messages.text is TEXT with no NOT NULL; the dict of a row holds the key
\* "text" whatever the value
RowTexts == {PyNone, PyStr(<<>>), PyStr(<<"h", "i">>), PyStr(LongText)}

FmtGroups == {10, 20}

FmtRows == [group_id : FmtGroups, text : RowTexts, media_type : BOOLEAN]

FmtWindows == UNION {[1..n -> FmtRows] : n \in 0..MaxWindow}

\* how a Python call ends
Returns(v) == [raised |-> "", value |-> v]
Raises(e) == [raised |-> e, value |-> <<>>]

\* "\n...[长文本截断]...\n" (cut to its dots)
CutMarker == <<"\n", ".", ".", ".", "\n">>

\* text = msg.get("text", ""): the default only stands in for a missing
\* key; len(text) on None raises TypeError
format_line(msg) ==
    LET text == msg.text
        extra_str == IF msg.media_type THEN <<" ", "[", "m", "]">> ELSE <<>>
    IN  IF text.none THEN Raises("TypeError")
        ELSE LET cut == IF Len(text.s) > CutOver
                        THEN SubSeq(text.s, 1, CutKeep) \o CutMarker
                               \o SubSeq(text.s, Len(text.s) - CutKeep + 1,
                                         Len(text.s))
                        ELSE text.s
             IN  Returns(<<"[", "d", "]", " ", "s", ":", " ">>
                            \o cut \o extra_str)

\* the three lines put in when the group changes
GroupHeader(gid) == <<<<"\n", "=">>, <<PIN, " ">> \o GroupTitle(gid), <<"=">>>>

RECURSIVE FormatLines(_, _)
FormatLines(msgs, current_group) ==
    IF msgs = <<>> THEN Returns(<<>>)
    ELSE LET msg == Head(msgs)
             head == IF msg.group_id # current_group
                     THEN GroupHeader(msg.group_id) ELSE <<>>
             line == format_line(msg)
         IN  IF line.raised # "" THEN line
             ELSE LET rest == FormatLines(Tail(msgs), msg.group_id)
                  IN  IF rest.raised # "" THEN rest
                      ELSE Returns(head \o <<line.value>> \o rest.value)

RECURSIVE JoinLines(_)
JoinLines(lines) ==
    IF lines = <<>> THEN <<>>
    ELSE IF Len(lines) = 1 THEN lines[1]
    ELSE lines[1] \o <<"\n">> \o JoinLines(Tail(lines))

\* Summarizer._format_messages
_format_messages(msgs) ==
    LET r == FormatLines(msgs, 0)
    IN  IF r.raised # "" THEN r ELSE Returns(JoinLines(r.value))

\* the rows of one group, as get_messages(group_id=gid) returns them
RowsOfGroup(window, gid) == SelectSeq(window, LAMBDA r : r.group_id = gid)

\* active_groups: the groups with get_message_count > 0, in get_groups order
ActiveGroups(window) ==
    SelectSeq(<<10, 20>>, LAMBDA g : RowsOfGroup(window, g) # <<>>)

\* summarize on a window of at most DEFAULT_CHUNK_SIZE rows: the formatting,
\* one _call_llm, _clean_markdown
summarize_window(window, reply) ==
    IF window = <<>> THEN Returns(NoMessages)
    ELSE LET formatted == _format_messages(window)
         IN  IF formatted.raised # "" THEN formatted
             ELSE Returns(QuickResult(<<reply>>, <<>>))

\* summarize_per_group: asyncio.gather over _process_single_group raises what
\* the first failing group raises
summarize_per_group(window, replies, merge) ==
    LET active == ActiveGroups(window)
        fs == [k \in DOMAIN active |->
                  _format_messages(RowsOfGroup(window, active[k]))]
    IN  IF \E k \in DOMAIN fs : fs[k].raised # ""
        THEN fs[CHOOSE k \in DOMAIN fs :
                    /\ fs[k].raised # ""
                    /\ \A j \in DOMAIN fs : fs[j].raised # "" => k <= j]
        ELSE Returns(PerGroupResult([k \in DOMAIN active |-> replies[k]],
                                    merge))

NoOutcome == Returns(<<>>)

\* the call starts and db.get_messages hands the window
fmt_called(mode, window) ==
    /\ fmt_pc = "idle"
    /\ fmt_pc' = "called"
    /\ fmt_mode' = mode
    /\ fmt_window' = window
    /\ fmt_out' = NoOutcome

\* the call runs to its end: it returns its string or an exception leaves it
fmt_over(replies, merge) ==
    /\ fmt_pc = "called"
    /\ fmt_pc' = "over"
    /\ fmt_out' = IF fmt_mode = "per_group"
                  THEN summarize_per_group(fmt_window, replies, merge)
                  ELSE summarize_window(fmt_window, replies[1])
    /\ UNCHANGED <<fmt_mode, fmt_window>>

\* the caller is back
fmt_back ==
    /\ fmt_pc = "over"
    /\ fmt_pc' = "idle"
    /\ fmt_mode' = "quick"
    /\ fmt_window' = <<>>
    /\ fmt_out' = NoOutcome

IdleFmt ==
    /\ fmt_pc = "idle"
    /\ fmt_mode = "quick"
    /\ fmt_window = <<>>
    /\ fmt_out = NoOutcome

\* ========================================================================
\* Specifications
\* ========================================================================

vars == <<storeVars, alertVars, llmVars, sumVars, jobVars, migVars, editVars,
    gapVars,
    rcVars,
    burstVars,
    scrubVars,
    poolVars,
    lockVars,
    trackVars,
    evVars,
    delVars,
    liveVars,
    verdictVars,
    fanVars,
    sweepVars,
    fmtVars>>

\* the variables an action of one component leaves alone
restOfStore == <<alertVars, llmVars, sumVars, jobVars, migVars, editVars,
    gapVars,
    rcVars,
    burstVars,
    scrubVars,
    poolVars,
    lockVars,
    trackVars,
    evVars,
    delVars,
    liveVars,
    verdictVars,
    fanVars,
    sweepVars,
    fmtVars>>
restOfAlerts == <<storeVars, llmVars, sumVars, jobVars, migVars, editVars,
    gapVars,
    rcVars,
    burstVars,
    scrubVars,
    poolVars,
    lockVars,
    trackVars,
    evVars,
    delVars,
    liveVars,
    verdictVars,
    fanVars,
    sweepVars,
    fmtVars>>
restOfLLM == <<storeVars, alertVars, sumVars, jobVars, migVars, editVars,
    gapVars,
    rcVars,
    burstVars,
    scrubVars,
    poolVars,
    lockVars,
    trackVars,
    evVars,
    delVars,
    liveVars,
    verdictVars,
    fanVars,
    sweepVars,
    fmtVars>>
restOfSum == <<storeVars, alertVars, llmVars, jobVars, migVars, editVars,
    gapVars,
    rcVars,
    burstVars,
    scrubVars,
    poolVars,
    lockVars,
    trackVars,
    evVars,
    delVars,
    liveVars,
    verdictVars,
    fanVars,
    sweepVars,
    fmtVars>>

IdleRest ==
    /\ IdleJobs
    /\ IdleMig
    /\ IdleEdits
    /\ IdleGap
    /\ IdleReconnect
    /\ IdleBurst
    /\ IdleScrub
    /\ IdlePool
    /\ IdleLocks
    /\ IdleTrack
    /\ IdleEvents
    /\ IdleDelete
    /\ IdleLive
    /\ IdleVerdict
    /\ IdleFan
    /\ IdleSweep /\ IdleFmt
    /\ IdleFmt

InitStore == IdleStore /\ IdleAlerts /\ IdleLLM /\ IdleSum /\ IdleRest

NextStore ==
    \/ \E msg \in Msgs, fail \in FailPoints :
          insert_message(msg, fail) /\ UNCHANGED restOfStore
    \/ \E n \in 1..MaxBatch : BatchStart(n) /\ UNCHANGED restOfStore
    \/ \E msg \in Msgs : BatchStep(msg) /\ UNCHANGED restOfStore
    \/ BatchCommit /\ UNCHANGED restOfStore
    \/ BatchFail /\ UNCHANGED restOfStore

SpecStore == InitStore /\ [][NextStore]_vars

InitAlerts == IdleStore /\ IdleAlerts /\ IdleLLM /\ IdleSum /\ IdleRest

NextAlerts ==
    \/ \E m \in AlertMsgs, enabled \in BOOLEAN, matched \in BOOLEAN :
          check_message(MsgKey(m), enabled, matched) /\ UNCHANGED restOfAlerts
    \/ \E order \in Orderings(get_recent_alerted_ids(24)) :
          Restart(order) /\ UNCHANGED restOfAlerts
    \/ \E h \in TickHours : Tick(h) /\ UNCHANGED restOfAlerts

SpecAlerts == InitAlerts /\ [][NextAlerts]_vars

InitLLM ==
    /\ IdleStore
    /\ IdleAlerts
    /\ IdleSum
    /\ IdleRest
    /\ \E kc \in KeyConfigs, n \in 1..MaxPerKey :
          ai_cfg = [api_key |-> kc.api_key, api_keys |-> kc.api_keys,
                    per_key |-> n]
    /\ key_queue = InitialQueue(EffectiveKeys(ai_cfg), ai_cfg.per_key)
    /\ calls = [c \in Callers |-> IdleCall]

NextLLM ==
    \/ \E c \in Callers : CallStart(c) /\ UNCHANGED restOfLLM
    \/ \E c \in Callers : Acquire(c) /\ UNCHANGED restOfLLM
    \/ \E c \in Callers, o \in Outcomes :
          Respond(c, o) /\ UNCHANGED restOfLLM
    \/ \E c \in Callers : Wake(c) /\ UNCHANGED restOfLLM
    \/ \E c \in Callers : Cancel(c) /\ UNCHANGED restOfLLM

SpecLLM == InitLLM /\ [][NextLLM]_vars

\* the configurations of the termination check: those above and an api_keys
\* list whose entries are all empty
FairKeyConfigs ==
    KeyConfigs \cup {[api_key |-> "", api_keys |-> <<"", "">>]}

InitLLMFair ==
    /\ IdleStore
    /\ IdleAlerts
    /\ IdleSum
    /\ IdleRest
    /\ \E kc \in FairKeyConfigs, n \in 1..MaxPerKey :
          ai_cfg = [api_key |-> kc.api_key, api_keys |-> kc.api_keys,
                    per_key |-> n]
    /\ key_queue = InitialQueue(EffectiveKeys(ai_cfg), ai_cfg.per_key)
    /\ calls = [c \in Callers |-> IdleCall]

\* every caller makes one call; no task is cancelled
NextLLMFair ==
    \/ \E c \in Callers :
          calls[c].pc = "idle" /\ CallStart(c) /\ UNCHANGED restOfLLM
    \/ \E c \in Callers : Acquire(c) /\ UNCHANGED restOfLLM
    \/ \E c \in Callers, o \in Outcomes :
          Respond(c, o) /\ UNCHANGED restOfLLM
    \/ \E c \in Callers : Wake(c) /\ UNCHANGED restOfLLM

\* every HTTP attempt completes or times out, every sleep ends, and a caller
\* that waits in get() is served when slots keep coming back (the getters of
\* an asyncio.Queue are woken in turn)
FairLLM ==
    \A c \in Callers :
        /\ SF_vars(Acquire(c) /\ UNCHANGED restOfLLM)
        /\ WF_vars((\E o \in Outcomes : Respond(c, o)) /\ UNCHANGED restOfLLM)
        /\ WF_vars(Wake(c) /\ UNCHANGED restOfLLM)

SpecLLMFair == InitLLMFair /\ [][NextLLMFair]_vars /\ FairLLM

InitSum == IdleStore /\ IdleAlerts /\ IdleLLM /\ IdleSum /\ IdleRest

NextSum ==
    \/ \E n \in Windows, sv \in BOOLEAN :
          summarize(n, sv) /\ UNCHANGED restOfSum
    \/ \E res \in CallResults :
          SingleDone(res) /\ UNCHANGED restOfSum
    \/ \E k \in 1..MaxChunks, res \in CallResults :
          ChunkDone(k, res) /\ UNCHANGED restOfSum
    \/ Gathered /\ UNCHANGED restOfSum
    \/ \E res \in CallResults :
          MergeDone(res) /\ UNCHANGED restOfSum

SpecSum == InitSum /\ [][NextSum]_vars

restOfJobs == <<storeVars, alertVars, llmVars, sumVars, migVars, editVars,
    gapVars,
    rcVars,
    burstVars,
    scrubVars,
    poolVars,
    lockVars,
    trackVars,
    evVars,
    delVars,
    liveVars,
    verdictVars,
    fanVars,
    sweepVars,
    fmtVars>>

InitJobs == IdleStore /\ IdleAlerts /\ IdleLLM /\ IdleSum /\ IdleRest

NextJobs ==
    \/ \E mode \in {"quick", "per_group"} :
          api_summary_generate(mode) /\ UNCHANGED restOfJobs
    \/ \E ok \in BOOLEAN : MainWrite(ok) /\ UNCHANGED restOfJobs
    \/ \E ok \in BOOLEAN : MainAwait(ok) /\ UNCHANGED restOfJobs
    \/ \E ok \in BOOLEAN, n \in 0..MaxKids :
          q_get_messages(ok, n) /\ UNCHANGED restOfJobs
    \/ \E ok \in BOOLEAN, n \in 0..MaxKids :
          g_count(ok, n) /\ UNCHANGED restOfJobs
    \/ \E res \in RunResults : MainLLMReturn(res) /\ UNCHANGED restOfJobs
    \/ \E k \in 1..MaxKids, ok \in BOOLEAN :
          KidProgress(k, ok) /\ UNCHANGED restOfJobs
    \/ \E k \in 1..MaxKids, ok \in BOOLEAN :
          KidRead(k, ok) /\ UNCHANGED restOfJobs
    \/ \E k \in 1..MaxKids, ok \in BOOLEAN :
          KidLLMReturn(k, ok) /\ UNCHANGED restOfJobs
    \/ \E more \in BOOLEAN, res \in RunResults :
          Gathered_run(more, res) /\ UNCHANGED restOfJobs
    \/ \E ok \in BOOLEAN : Report(ok) /\ UNCHANGED restOfJobs
    \/ \E ok \in BOOLEAN : Except(ok) /\ UNCHANGED restOfJobs

SpecJobs == InitJobs /\ [][NextJobs]_vars

restOfMig == <<storeVars, alertVars, llmVars, sumVars, jobVars, editVars,
    gapVars,
    rcVars,
    burstVars,
    scrubVars,
    poolVars,
    lockVars,
    trackVars,
    evVars,
    delVars,
    liveVars,
    verdictVars,
    fanVars,
    sweepVars,
    fmtVars>>

InitMig == IdleStore /\ IdleAlerts /\ IdleLLM /\ IdleSum /\ IdleRest

NextMig ==
    \/ \E ledger \in {<<>>, <<1>>} : OldStore(ledger) /\ UNCHANGED restOfMig
    \/ \E c \in Procs : connect(c) /\ UNCHANGED restOfMig
    \/ \E c \in Procs, ok \in BOOLEAN : ExecSql(c, ok) /\ UNCHANGED restOfMig
    \/ \E c \in Procs, ok \in BOOLEAN :
          WriteLedger(c, ok) /\ UNCHANGED restOfMig

SpecMig == InitMig /\ [][NextMig]_vars

restOfEdits == <<alertVars, llmVars, sumVars, jobVars, migVars, gapVars,
    rcVars,
    burstVars,
    scrubVars,
    poolVars,
    lockVars,
    trackVars,
    evVars,
    delVars,
    liveVars,
    verdictVars,
    fanVars,
    sweepVars,
    fmtVars>>

InitEdits == IdleStore /\ IdleAlerts /\ IdleLLM /\ IdleSum /\ IdleRest

NextEdits ==
    \/ \E msg \in {m \in Msgs : <<m.id, m.group_id>> \in EditKeys} :
          edit_insert(msg) /\ UNCHANGED restOfEdits
    \/ \E k \in EditKeys, t \in EditTexts :
          update_message_text(k[1], k[2], t) /\ UNCHANGED restOfEdits
    \/ \E ids \in SUBSET {k[1] : k \in EditKeys}, k \in EditKeys :
          delete_messages(ids, k[2]) /\ UNCHANGED restOfEdits
    \/ \E cutoff \in Cutoffs :
          cleanup_old_messages(cutoff) /\ UNCHANGED restOfEdits

SpecEdits == InitEdits /\ [][NextEdits]_vars

restOfGap == <<storeVars, alertVars, llmVars, sumVars, jobVars, migVars,
    editVars,
    rcVars,
    burstVars,
    scrubVars,
    poolVars,
    lockVars,
    trackVars,
    evVars,
    delVars,
    liveVars,
    verdictVars,
    fanVars,
    sweepVars,
    fmtVars>>

InitGap == IdleStore /\ IdleAlerts /\ IdleLLM /\ IdleSum /\ IdleRest

NextGap ==
    \/ Advance /\ UNCHANGED restOfGap
    \/ \E gid \in {10, 20}, action \in BOOLEAN :
          Deliver(gid, action) /\ UNCHANGED restOfGap
    \/ \E w \in Tenants : \E failed \in SUBSET MonitoredIds(w) :
          WorkerStart(w, failed) /\ UNCHANGED restOfGap
    \/ \E w \in Tenants : Disconnect(w) /\ UNCHANGED restOfGap
    \/ \E w \in Tenants : \E failed \in SUBSET MonitoredIds(w) :
          Reconnect(w, failed) /\ UNCHANGED restOfGap
    \/ \E w \in Tenants : WorkerStop(w) /\ UNCHANGED restOfGap

SpecGap == InitGap /\ [][NextGap]_vars

restOfReconnect == <<storeVars, alertVars, llmVars, sumVars, jobVars, migVars,
    editVars, gapVars,
    burstVars,
    scrubVars,
    poolVars,
    lockVars,
    trackVars,
    evVars,
    delVars,
    liveVars,
    verdictVars,
    fanVars,
    sweepVars,
    fmtVars>>

InitReconnect == IdleStore /\ IdleAlerts /\ IdleLLM /\ IdleSum /\ IdleRest

NextReconnect ==
    \/ LoopTop /\ UNCHANGED restOfReconnect
    \/ \E e \in Raised, s \in FloodSeconds :
          ConnectFails(e, s) /\ UNCHANGED restOfReconnect
    \/ \E e \in Raised, s \in FloodSeconds :
          AuthorizedRaises(e, s) /\ UNCHANGED restOfReconnect
    \/ \E authorized \in BOOLEAN :
          ConnectReturns(authorized) /\ UNCHANGED restOfReconnect
    \/ RecoverReturns /\ UNCHANGED restOfReconnect
    \/ \E e \in Raised, s \in FloodSeconds :
          RecoverRaises(e, s) /\ UNCHANGED restOfReconnect
    \/ \E e \in Raised \cup {"return"}, s \in FloodSeconds :
          LiveEnds(e, s) /\ UNCHANGED restOfReconnect
    \/ FloodSleepOver /\ UNCHANGED restOfReconnect
    \/ BackoffSleepOver /\ UNCHANGED restOfReconnect
    \/ CollectorStop /\ UNCHANGED restOfReconnect

SpecReconnect == InitReconnect /\ [][NextReconnect]_vars

restOfBurst == <<storeVars, alertVars, llmVars, sumVars, jobVars, migVars,
    editVars, gapVars, rcVars,
    scrubVars,
    poolVars,
    lockVars,
    trackVars,
    evVars,
    delVars,
    liveVars,
    verdictVars,
    fanVars,
    sweepVars,
    fmtVars>>

InitBurst == IdleStore /\ IdleAlerts /\ IdleLLM /\ IdleSum /\ IdleRest

NextBurst ==
    \/ \E c \in 1..BurstSize : BurstEnter(c) /\ UNCHANGED restOfBurst
    \/ BurstAcquire /\ UNCHANGED restOfBurst
    \/ BurstRequeue /\ UNCHANGED restOfBurst
    \/ \E c \in 1..BurstSize, outcome \in Outcomes :
          BurstRespond(c, outcome) /\ UNCHANGED restOfBurst
    \/ \E c \in 1..BurstSize : BurstWake(c) /\ UNCHANGED restOfBurst

SpecBurst == InitBurst /\ [][NextBurst]_vars

restOfScrub == <<storeVars, alertVars, llmVars, sumVars, jobVars, migVars,
    editVars, gapVars, rcVars, burstVars,
    poolVars,
    lockVars,
    trackVars,
    evVars,
    delVars,
    liveVars,
    verdictVars,
    fanVars,
    sweepVars,
    fmtVars>>

InitScrub ==
    /\ IdleStore /\ IdleAlerts /\ IdleLLM /\ IdleSum
    /\ IdleJobs /\ IdleMig /\ IdleEdits /\ IdleGap
    /\ IdleReconnect /\ IdleBurst /\ IdlePool /\ IdleLocks /\ IdleTrack
    /\ IdleEvents /\ IdleDelete /\ IdleLive /\ IdleVerdict /\ IdleFan
    /\ IdleSweep /\ IdleFmt
    /\ scrub_in \in ScrubInputs
    /\ scrub_out = <<>>

NextScrub ==
    \/ clean_markdown /\ UNCHANGED restOfScrub

SpecScrub == InitScrub /\ [][NextScrub]_vars

restOfPool == <<storeVars, alertVars, llmVars, sumVars, jobVars, migVars,
    editVars, gapVars, rcVars, burstVars, scrubVars,
    lockVars,
    trackVars,
    evVars,
    delVars,
    liveVars,
    verdictVars,
    fanVars,
    sweepVars,
    fmtVars>>

InitPool == IdleStore /\ IdleAlerts /\ IdleLLM /\ IdleSum /\ IdleRest

NextPool ==
    \/ start_all /\ UNCHANGED restOfPool
    \/ \E t \in CalledIds : start_tenant(t) /\ UNCHANGED restOfPool
    \/ \E t \in PoolTenants : _start_tenant(t) /\ UNCHANGED restOfPool
    \/ \E c \in StopCalls, t \in CalledIds :
          stop_tenant(c, t) /\ UNCHANGED restOfPool
    \/ \E c \in StopCalls, raised \in BOOLEAN :
          Disconnected(c, raised) /\ UNCHANGED restOfPool
    \/ \E c \in StopCalls : TaskAwaited(c) /\ UNCHANGED restOfPool
    \/ \E w \in DOMAIN session_workers :
          ClientStarts(w) /\ UNCHANGED restOfPool
    \/ \E w \in DOMAIN session_workers :
          RunConnected(w) /\ UNCHANGED restOfPool
    \/ \E w \in DOMAIN session_workers :
          ClientDrops(w) /\ UNCHANGED restOfPool
    \/ \E w \in DOMAIN session_workers :
          RunReconnects(w) /\ UNCHANGED restOfPool
    \/ \E w \in DOMAIN session_workers : RunRaises(w) /\ UNCHANGED restOfPool
    \/ \E w \in DOMAIN session_workers :
          RunCancelled(w) /\ UNCHANGED restOfPool

SpecPool == InitPool /\ [][NextPool]_vars

restOfLocks == <<storeVars, alertVars, llmVars, sumVars, jobVars, migVars,
    editVars, gapVars, rcVars, burstVars, scrubVars, poolVars,
    trackVars,
    evVars,
    delVars,
    liveVars,
    verdictVars,
    fanVars,
    sweepVars,
    fmtVars>>

InitLocks == IdleStore /\ IdleAlerts /\ IdleLLM /\ IdleSum /\ IdleRest

NextLocks ==
    \/ \E w \in Tenants : recover_gap_start(w) /\ UNCHANGED restOfLocks
    \/ \E w \in Tenants, g \in RecGroups, has_batch \in BOOLEAN :
          fetched(w, g, has_batch) /\ UNCHANGED restOfLocks
    \/ \E w \in Tenants, g \in RecGroups :
          lock_acquired(w, g) /\ UNCHANGED restOfLocks
    \/ \E w \in Tenants, g \in RecGroups :
          batch_inserted(w, g) /\ UNCHANGED restOfLocks
    \/ \E w \in Tenants : recover_gap_returns(w) /\ UNCHANGED restOfLocks

SpecLocks == InitLocks /\ [][NextLocks]_vars

restOfTrack == <<alertVars, llmVars, sumVars, jobVars, migVars, editVars,
    gapVars, rcVars, burstVars, scrubVars, poolVars, lockVars,
    evVars,
    delVars,
    liveVars,
    verdictVars,
    fanVars,
    sweepVars,
    fmtVars>>

InitTrack == IdleStore /\ IdleAlerts /\ IdleLLM /\ IdleSum /\ IdleRest

NextTrack ==
    \/ \E msg \in TrackMsgs : live_insert(msg) /\ UNCHANGED restOfTrack
    \/ \E n \in 1..MaxBatch : batch_start(n) /\ UNCHANGED restOfTrack
    \/ \E msg \in TrackMsgs : batch_step(msg) /\ UNCHANGED restOfTrack
    \/ batch_commit /\ UNCHANGED restOfTrack
    \/ batch_fail /\ UNCHANGED restOfTrack

SpecTrack == InitTrack /\ [][NextTrack]_vars

restOfEvents == <<storeVars, alertVars, llmVars, sumVars, jobVars, migVars,
    editVars, gapVars, rcVars, burstVars, scrubVars, poolVars, lockVars,
    trackVars,
    delVars,
    liveVars,
    verdictVars,
    fanVars,
    sweepVars,
    fmtVars>>

InitEvents == IdleStore /\ IdleAlerts /\ IdleLLM /\ IdleSum /\ IdleRest

NextEvents ==
    \/ \E kind \in EventKinds : \E at \in EndPoints(kind) :
          on_event(kind, at) /\ UNCHANGED restOfEvents

SpecEvents == InitEvents /\ [][NextEvents]_vars

restOfDelete == <<alertVars, llmVars, sumVars, jobVars, migVars, gapVars,
    rcVars, burstVars, scrubVars, poolVars, lockVars, trackVars, evVars,
    liveVars,
    verdictVars,
    fanVars,
    sweepVars,
    fmtVars>>

InitDelete == IdleStore /\ IdleAlerts /\ IdleLLM /\ IdleSum /\ IdleRest

NextDelete ==
    \/ \E msg \in DelMsgs : del_insert(msg) /\ UNCHANGED restOfDelete
    \/ \E ids \in DelIdLists, c \in DelGroups \cup {0}, o \in DelGroups :
          on_message_deleted(ids, c, o) /\ UNCHANGED restOfDelete
    \/ \E gid \in DelMonitored :
          delete_in_group(gid) /\ UNCHANGED restOfDelete

SpecDelete == InitDelete /\ [][NextDelete]_vars

restOfLive == <<storeVars, llmVars, sumVars, jobVars, migVars, editVars,
    gapVars, rcVars, burstVars, scrubVars, poolVars, lockVars, trackVars,
    evVars, delVars,
    verdictVars,
    fanVars,
    sweepVars,
    fmtVars>>

InitLive == IdleStore /\ IdleAlerts /\ IdleLLM /\ IdleSum /\ IdleRest

NextLive ==
    \/ \E cfg_enabled \in BOOLEAN, keep_days \in KeepDaysChoices :
          process_start(cfg_enabled, keep_days)
          /\ UNCHANGED <<alertVars, restOfLive>>
    \/ \E enabled \in BOOLEAN :
          api_alerts_toggle(enabled) /\ UNCHANGED <<alertVars, restOfLive>>
    \/ \E days \in KeepDaysChoices :
          api_set_retention(days) /\ UNCHANGED <<alertVars, restOfLive>>
    \/ \E m \in LiveMsgs, matched \in BOOLEAN, read_ok \in BOOLEAN :
          on_new_message(MsgKey(m), matched, read_ok) /\ UNCHANGED restOfLive
    \/ daily_cleanup /\ UNCHANGED <<alertVars, restOfLive>>

SpecLive == InitLive /\ [][NextLive]_vars

InitPrune == IdleStore /\ IdleAlerts /\ IdleLLM /\ IdleSum /\ IdleRest

NextPrune ==
    \/ \E m \in PruneMsgs :
          check_message(MsgKey(m), TRUE, TRUE) /\ UNCHANGED restOfAlerts
    \/ cleanup_old_alerts(48) /\ UNCHANGED restOfAlerts
    \/ \E order \in Orderings(get_recent_alerted_ids(24)) :
          Restart(order) /\ UNCHANGED restOfAlerts
    \/ \E h \in TickHours : PruneTick(h) /\ UNCHANGED restOfAlerts

SpecPrune == InitPrune /\ [][NextPrune]_vars

restOfVerdict == <<storeVars, alertVars, llmVars, sumVars, jobVars, migVars,
    editVars, gapVars, rcVars, burstVars, scrubVars, poolVars, lockVars,
    trackVars, evVars, delVars, liveVars,
    fanVars,
    sweepVars,
    fmtVars>>

InitVerdict == IdleStore /\ IdleAlerts /\ IdleLLM /\ IdleSum /\ IdleRest

NextVerdict ==
    \/ \E mode \in {"quick", "per_group"}, units \in UnitRuns,
          merge \in UnitResults :
          job_created(mode, units, merge) /\ UNCHANGED restOfVerdict
    \/ \E raised \in BOOLEAN :
          summarizer_returns(raised) /\ UNCHANGED restOfVerdict
    \/ report_job /\ UNCHANGED restOfVerdict

SpecVerdict == InitVerdict /\ [][NextVerdict]_vars

restOfFan == <<storeVars, alertVars, llmVars, sumVars, jobVars, migVars,
    editVars, gapVars, rcVars, burstVars, scrubVars, poolVars, lockVars,
    trackVars, evVars, delVars, liveVars, verdictVars,
    sweepVars,
    fmtVars>>

InitFan == IdleStore /\ IdleAlerts /\ IdleLLM /\ IdleSum /\ IdleRest

NextFan ==
    \/ \E w \in FanWorkers, key \in FanKeys :
          fan_ingest(w, key) /\ UNCHANGED restOfFan
    \/ \E w \in FanWorkers, key \in FanKeys :
          fan_check(w, key) /\ UNCHANGED restOfFan

SpecFan == InitFan /\ [][NextFan]_vars

restOfSweep == <<storeVars, alertVars, llmVars, sumVars, jobVars, migVars,
    editVars, gapVars, rcVars, burstVars, scrubVars, poolVars, lockVars,
    trackVars, evVars, delVars, liveVars, verdictVars, fanVars,
    fmtVars>>

InitSweep == IdleStore /\ IdleAlerts /\ IdleLLM /\ IdleSum /\ IdleRest

NextSweep ==
    \/ rt_start /\ UNCHANGED restOfSweep
    \/ \E raised \in BOOLEAN : rt_disconnected(raised) /\ UNCHANGED restOfSweep
    \/ rt_backoff_over /\ UNCHANGED restOfSweep
    \/ \E authorized \in BOOLEAN :
          rt_connected(authorized) /\ UNCHANGED restOfSweep
    \/ collector_stop /\ UNCHANGED restOfSweep
    \/ rt_loop_ends /\ UNCHANGED restOfSweep
    \/ rt_closed /\ UNCHANGED restOfSweep
    \/ rt_task_cancelled /\ UNCHANGED restOfSweep
    \/ sweeper_wakes /\ UNCHANGED restOfSweep
    \/ sweeper_sweeps /\ UNCHANGED restOfSweep

SpecSweep == InitSweep /\ [][NextSweep]_vars

restOfFmt == <<storeVars, alertVars, llmVars, sumVars, jobVars, migVars,
    editVars, gapVars, rcVars, burstVars, scrubVars, poolVars, lockVars,
    trackVars, evVars, delVars, liveVars, verdictVars, fanVars, sweepVars>>

InitFmt == IdleStore /\ IdleAlerts /\ IdleLLM /\ IdleSum /\ IdleRest

NextFmt ==
    \/ \E mode \in {"quick", "per_group"}, window \in FmtWindows :
          fmt_called(mode, window) /\ UNCHANGED restOfFmt
    \/ \E replies \in [1..2 -> {<<>>, Reply}], merge \in {<<>>, Reply} :
          fmt_over(replies, merge) /\ UNCHANGED restOfFmt
    \/ fmt_back /\ UNCHANGED restOfFmt

SpecFmt == InitFmt /\ [][NextFmt]_vars

\* ------------------------------------------------------------------------
\* Properties of the store
\* ------------------------------------------------------------------------

RowsOfKey(rows, id, gid) == {r \in rows : r.id = id /\ r.group_id = gid}

FtsEntries(fts, rowid) == {i \in 1..Len(fts) : fts[i].rowid = rowid}

\* every stored key has one row, and that row one FTS entry with its rowid
OneRowOneEntry(v) ==
    \A r \in v.messages :
        /\ Cardinality(RowsOfKey(v.messages, r.id, r.group_id)) = 1
        /\ Cardinality(FtsEntries(v.messages_fts, r.rowid)) = 1

\* C1: after any sequence of insert_message / insert_messages_batch calls,
\* a key that was inserted (once or many times) has exactly one row in
\* messages and exactly one FTS entry with that row's rowid; this holds of
\* the connection's view and of the committed store.
C1_IdempotentIngest ==
    /\ OneRowOneEntry(CurrentView)
    /\ OneRowOneEntry(committed)
    /\ lastInsert.id # 0 =>
          Cardinality(RowsOfKey(messages, lastInsert.id,
                                lastInsert.group_id)) = 1

\* C1 witness: the last insert statement offered a key that was stored
\* already, and the key still has its one row and one FTS entry
C1_Witness ==
    /\ lastInsert.dup
    /\ \E r \in RowsOfKey(messages, lastInsert.id, lastInsert.group_id) :
          Cardinality(FtsEntries(messages_fts, r.rowid)) = 1
    /\ Cardinality(RowsOfKey(committed.messages, lastInsert.id,
                             lastInsert.group_id)) = 1

\* ------------------------------------------------------------------------
\* Properties of the alert de-duplication
\* ------------------------------------------------------------------------

\* C2: a key that was notified less than 24 h before the process restarted
\* is not notified again when it is offered to check_message after the
\* restart.  (The notification looked at is the first one since the restart,
\* so no eviction from the deque stands between the restart and the offer.)
C2_NoReemitAfterRestart ==
    ~ ( /\ bootAt >= 0
        /\ lastSend.key # <<>>
        /\ hitsSinceBoot = {lastSend.key}
        /\ lastSend.prev >= 0
        /\ bootAt - lastSend.prev < 24 )

\* C3: once more than DequeMaxLen distinct keys were alerted since the
\* process started (after a rehydration or not), the de-duplication set has
\* at most DequeMaxLen elements and holds the DequeMaxLen keys alerted last.
C3_DedupBound ==
    Cardinality(hitsSinceBoot) > DequeMaxLen =>
        /\ Cardinality(alerted_ids) <= DequeMaxLen
        /\ Range(recentHits) \subseteq alerted_ids

\* the same bound for a process that never rehydrated
C3_DedupBoundNoRehydration ==
    (bootAt = -1 /\ Cardinality(hitsSinceBoot) > DequeMaxLen) =>
        /\ Cardinality(alerted_ids) <= DequeMaxLen
        /\ Range(recentHits) \subseteq alerted_ids
        /\ Range(alerted_deque) = alerted_ids

\* ------------------------------------------------------------------------
\* Properties of the credential-slot pool and of _call_llm
\* ------------------------------------------------------------------------

Count(seq, x) == Cardinality({i \in 1..Len(seq) : seq[i] = x})

Holders(k) == {c \in Callers : calls[c].api_key = k}

InFlight == {c \in Callers : calls[c].api_key # NoKey}

Retryable == {"429", "5xx", "transport"}

AllRetryable(hist) == hist # <<>> /\ Range(hist) \subseteq Retryable

\* C4: the slots in the pool and the slots held by attempts in flight are
\* together len(keys) x C, key by key; a call holds a slot only while its
\* HTTP attempt is awaited, so a call that returned (or sleeps, or waits for
\* a slot) holds none and its key is back in the pool.
C4_SlotConservation ==
    LET keys == EffectiveKeys(ai_cfg)
    IN  /\ Len(key_queue) + Cardinality(InFlight)
              = Len(keys) * ai_cfg.per_key
        /\ \A k \in Range(keys) :
              Count(key_queue, k) + Cardinality(Holders(k))
                  = Count(keys, k) * ai_cfg.per_key
        /\ \A c \in Callers :
              calls[c].pc # "http" => calls[c].api_key = NoKey
        /\ \A c \in Callers :
              calls[c].pc = "http" => calls[c].api_key \in Range(keys)

\* C4 witness: one call gave up after three attempts, another failed fast,
\* and every slot is back in the pool
C4_Witness ==
    /\ \E c \in Callers :
          /\ calls[c].pc = "done"
          /\ Len(calls[c].hist) = 3
          /\ calls[c].result = ErrGiveUp
    /\ \E c \in Callers :
          calls[c].pc = "done" /\ calls[c].result = Err4xx
    /\ Len(key_queue) = Len(EffectiveKeys(ai_cfg)) * ai_cfg.per_key
    /\ Len(key_queue) > 0

\* C5: at no time is one API key held by more than
\* C = max_concurrent_per_key calls in flight (which is what an effective
\* key list without duplicates would give).
C5_KeyHeldAtMostC ==
    \A k \in Range(EffectiveKeys(ai_cfg)) :
        Cardinality(Holders(k)) <= ai_cfg.per_key

CallsOfKind(kind) == {i \in 1..Len(llm_calls) : llm_calls[i].kind = kind}

ChunkedRunDone == sum_pc = "done" /\ CallsOfKind("chunk") # {}

\* a chunk call succeeded: it returned a reply, not an error text
Succeeded(r) == r # Pending /\ ~StartsWithCross(r)

SuccessfulPartials == SelectSeq(results, Succeeded)

\* text d occurs in text s
IsPartOf(d, s) == \E i \in 1..(Len(s) + 1) : StartsAt(s, i, d)

\* C7: when a chunked summarize(save=True) run has ended and every chunk
\* call failed, the returned text starts with the cross mark and table
\* summaries has no row.
C7_AllChunksFail ==
    (/\ ChunkedRunDone
     /\ save
     /\ \A k \in DOMAIN results : StartsWithCross(results[k]))
        => (StartsWithCross(summary) /\ summaries = <<>>)

\* C8: when a chunked run has ended in which at least two chunk calls
\* succeeded and the merge call failed, _summarize_chunked returned the
\* successful partial results joined by the "---" separator, and that is
\* neither empty nor the merge call's error text.
C8_MergeFailsJoinsPartials ==
    (/\ ChunkedRunDone
     /\ CallsOfKind("merge") # {}
     /\ Len(SuccessfulPartials) >= 2
     /\ StartsWithCross(final))
        => (/\ chunked = Join(SelectSeq(SuccessfulPartials, Truthy_text))
            /\ chunked # <<>>
            /\ chunked # final)

\* C9: no chunk result that begins with the cross mark is part of the
\* prompt of a merge call.
C9_MergeInputOnlySuccessful ==
    \A i \in CallsOfKind("merge") :
        \A k \in DOMAIN results :
            StartsWithCross(results[k])
                => ~IsPartOf(results[k], llm_calls[i].prompt)

\* ceil(n / 300)
CeilDiv300(n) == CHOOSE c \in 0..n : c * 300 >= n /\ (c - 1) * 300 < n

\* the chunk calls are the first ceil(total / 300) calls; their ranges are
\* contiguous from 0 to total, each of 1 to 300 messages
ChunkCallsCoverWindow ==
    LET c == CeilDiv300(total)
    IN  /\ CallsOfKind("chunk") = 1..c
        /\ llm_calls[1].lo = 0
        /\ llm_calls[c].hi = total
        /\ \A k \in 1..c :
              (llm_calls[k].hi - llm_calls[k].lo) \in 1..300
        /\ \A k \in 1..(c - 1) : llm_calls[k + 1].lo = llm_calls[k].hi
        /\ CallsOfKind("single") = {}

\* at most one merge call, made after every chunk call; once the run has
\* ended, one was made if more than one chunk result was kept
MergeCallAfterChunks ==
    /\ CallsOfKind("merge") \subseteq {Len(llm_calls)}
    /\ CallsOfKind("merge") # {} => Len(llm_calls) = CeilDiv300(total) + 1
    /\ (sum_pc = "done" /\ Len(chunk_summaries(results)) > 1)
          => CallsOfKind("merge") # {}

Started == sum_pc # "idle"

Terminal(row) == row.status \in {"done", "error"}

\* one step of the job's row as the claim allows it
JobStepAllowed ==
    summary_jobs # NoJob =>
        /\ summary_jobs'.status \in {"running", "done", "error"}
        /\ summary_jobs.status = "running"
              => summary_jobs'.progress >= summary_jobs.progress
        /\ Terminal(summary_jobs)
              => /\ summary_jobs'.status = summary_jobs.status
                 /\ summary_jobs'.progress = summary_jobs.progress

\* C11: a created job is running or terminal (done, error); while it runs
\* no write lowers its progress; once it is terminal no write changes its
\* status or its progress.
C11_JobMonotoneThenTerminal == [][JobStepAllowed]_vars

\* ------------------------------------------------------------------------
\* Properties of the migrations
\* ------------------------------------------------------------------------

\* C12: the ledger holds the versions 1..k of the migration list for some
\* k, each once and in ascending order; a connect() that found the ledger
\* complete has run no migration and written no ledger row.
C12_LedgerIsPrefix ==
    /\ Len(schema_version) <= Len(MIGRATIONS)
    /\ \A i \in 1..Len(schema_version) :
          schema_version[i] = MIGRATIONS[i].version
    /\ \A c \in Procs :
          mig[c].full => (mig[c].pc = "done" /\ mig[c].ran = 0
                             /\ mig[c].wrote = 0)

\* a connect() was aborted by a failing migration with part of the ledger
\* written, and a later connect() of the same process found the ledger
\* complete
C12_Witness ==
    /\ schema_version = <<1, 2, 3, 4>>
    /\ \E c \in Procs : mig[c].full /\ mig[c].pc = "done"
    /\ \E c \in Procs : mig[c].pc = "raised"

\* ------------------------------------------------------------------------
\* Properties of the store edits
\* ------------------------------------------------------------------------

\* the row an update_message_text step was aimed at
TargetRow == CHOOSE r \in messages : /\ r.id \in last_op'.ids
                                     /\ r.group_id = last_op'.group_id

\* what update_message_text is stated to do in one step
UpdateStepAllowed ==
    (/\ last_op'.op = "update"
     /\ \E r \in messages : /\ r.id \in last_op'.ids
                            /\ r.group_id = last_op'.group_id)
    => IF TargetRow.text = last_op'.text
       THEN /\ ~last_op'.changed
            /\ messages' = messages
            /\ messages_fts' = messages_fts
       ELSE /\ last_op'.changed
            /\ messages' = (messages \ {TargetRow})
                  \cup {[TargetRow EXCEPT !.text = last_op'.text]}
            /\ \E i \in DOMAIN messages_fts' :
                  /\ messages_fts'[i] = [rowid |-> TargetRow.rowid,
                                         text |-> last_op'.text]
                  /\ \A j \in DOMAIN messages_fts' :
                        messages_fts'[j].rowid = TargetRow.rowid => j = i

\* C13: update_message_text on a stored message leaves the row and its FTS
\* entry alone and returns false when the text is equal, and replaces the
\* row's text and its one FTS entry and returns true when the text differs
C13_UpdateReplacesOrLeaves == [][UpdateStepAllowed]_vars

\* C14: after delete_messages has removed a message no Links row for it is
\* left, so every Links row refers to a stored Message
C14_LinksReferToStoredMessages ==
    \A l \in links : HasKey(messages, l.message_id, l.group_id)

\* C15: the FTS index holds exactly one entry, with the current text, for
\* every stored Message with a non-null text, and none for a rowid that is
\* not in Messages
C15_FtsMatchesMessages ==
    /\ \A r \in messages : r.text # Null =>
          /\ Cardinality(FtsEntries(messages_fts, r.rowid)) = 1
          /\ \E i \in DOMAIN messages_fts :
                messages_fts[i] = [rowid |-> r.rowid, text |-> r.text]
    /\ \A i \in DOMAIN messages_fts :
          \E r \in messages : r.rowid = messages_fts[i].rowid

\* ------------------------------------------------------------------------
\* Properties of the gap recovery
\* ------------------------------------------------------------------------

\* C16: when gap recovery has walked the groups without error and the worker
\* is Live, every non-service message delivered to one of its groups while it
\* was not connected is in the Store exactly once
C16_GapRecovered ==
    \A w \in Tenants :
        (collectors[w].pc = "live" /\ collectors[w].walked) =>
            \A k \in collectors[w].missed :
                Cardinality({r \in db_rows : r.id = k[1]
                                             /\ r.group_id = k[2]}) = 1

\* ------------------------------------------------------------------------
\* Properties of the reconnect loop
\* ------------------------------------------------------------------------

DelayValues == {5, 10, 20, 40, 80, 160, 300}

\* the handler of the last connection attempt is through, the next attempt
\* has not been made
BetweenAttempts == rr_pc \in {"loop", "connecting"}

FairShare == (BurstSize + Len(BurstKeys) - 1) \div Len(BurstKeys) + 1

\* the calls that hold a slot
SlotHolders == {c \in 1..BurstSize : burst[c].pc = "http"}

\* C18: across a burst of M > 2 x len(keys) x C concurrent calls no key is
\* handed out more than ceil(M / len(keys)) + 1 times, and each acquire
\* hands out exactly one key (a call at its HTTP attempt holds one key, and
\* every slot is either held by one call or in the queue)
C18_FairAndOneKeyPerAcquire ==
    /\ \A k \in Range(BurstKeys) : handed[k] <= FairShare
    /\ \A c \in SlotHolders : burst[c].api_key \in Range(BurstKeys)
    /\ Cardinality(SlotHolders) + Len(slot_queue)
          = Len(BurstKeys) * BurstPerKey

\* ------------------------------------------------------------------------
\* Properties of the Markdown scrubber
\* ------------------------------------------------------------------------

\* C19: _clean_markdown is idempotent: cleaning a cleaned text returns it
\* unchanged, _clean_markdown(_clean_markdown(x)) = _clean_markdown(x).
C19_ScrubIdempotent ==
    \A i \in 2..Len(scrub_out) : scrub_out[i] = scrub_out[1]

\* ------------------------------------------------------------------------
\* Properties of the session pool
\* ------------------------------------------------------------------------

\* the workers of tenant tid whose is_running is true
RunningOf(ws, tid) ==
    {w \in DOMAIN ws : ws[w].tenant = tid /\ is_running(ws[w])}

\* a step that runs _start_tenant for a tenant whose worker is running
\* creates no worker and changes none
StartIsNoOp ==
    \A tid \in PoolTenants :
        (/\ starts'[tid] < starts[tid]
         /\ pool_workers[tid] # 0
         /\ is_running(session_workers[pool_workers[tid]]))
            => /\ session_workers' = session_workers
               /\ pool_workers' = pool_workers

\* C20: under any interleaving of start_all, start_tenant and stop_tenant
\* at most one worker task is running for a tenant id at any time, and
\* starting a tenant that is already running creates no new worker and
\* leaves the running one untouched.
C20_OneWorkerPerTenant ==
    [][/\ StartIsNoOp
       /\ \A tid \in PoolTenants :
             Cardinality(RunningOf(session_workers', tid)) <= 1]_vars

\* C21: when stop_tenant(id) returns, the worker's task has finished, its
\* client is disconnected and is never connected again, and id is absent
\* from status(), whatever state the worker was in when the stop was
\* requested.
C21_StoppedMeansGone ==
    [][/\ \A w \in stopped' :
             /\ session_workers'[w].task = "done"
             /\ ~session_workers'[w].connected
       /\ \A w \in stopped' \ stopped :
             pool_workers'[session_workers[w].tenant] = 0]_vars

\* ------------------------------------------------------------------------
\* Properties of the retries of _call_llm
\* ------------------------------------------------------------------------

\* caller c ends attempt number a < max_retries in HTTP 429, HTTP 5xx or a
\* transport error
RetryableAttemptEnds(c) ==
    /\ calls[c].pc = "http"
    /\ calls'[c].pc \notin {"http", "cancelled"}
    /\ calls[c].attempt < max_retries
    /\ calls'[c].hist[Len(calls'[c].hist)] \in {"429", "5xx", "transport"}

\* C22: after attempt a < 2 of a _call_llm call ends in HTTP 429, HTTP 5xx
\* or a transport error, the call first releases its slot, then waits (the
\* sleep of 2^a seconds), and only then acquires a slot for the next
\* attempt; no slot is held during the wait.
C22_ReleaseWaitAcquire ==
    [][\A c \in Callers :
          /\ RetryableAttemptEnds(c) =>
                /\ calls'[c].pc = "sleep"
                /\ calls'[c].api_key = NoKey
                /\ key_queue' = Append(key_queue, calls[c].api_key)
          /\ calls[c].pc = "sleep" => calls[c].api_key = NoKey]_vars

\* C23: an attempt answered with an HTTP 4xx status other than 429 ends the
\* call at once: it is the call's last attempt, no backoff wait and no
\* further slot acquire follow, the slot is back in the pool, and the
\* returned string begins with the cross mark.
C23_FailFastOn4xx ==
    \A c \in Callers :
        "4xx" \in Range(calls[c].hist) =>
            /\ calls[c].pc = "done"
            /\ Count(calls[c].hist, "4xx") = 1
            /\ calls[c].hist[Len(calls[c].hist)] = "4xx"
            /\ calls[c].api_key = NoKey
            /\ calls[c].result = Err4xx
            /\ StartsWithCross(calls[c].result)

\* C23 witness: one call failed on its first attempt, another on its third
C23_Witness ==
    /\ \E c \in Callers :
          calls[c].pc = "done" /\ calls[c].hist = <<"4xx">>
    /\ \E c \in Callers :
          calls[c].pc = "done" /\ calls[c].hist = <<"429", "transport", "4xx">>

\* ------------------------------------------------------------------------
\* Properties of the reconnect loop: rate limits and gap recovery
\* ------------------------------------------------------------------------

\* C24: when the loop catches a rate-limit error that carries a wait of s
\* seconds, the worker sleeps exactly s seconds before its next attempt,
\* does not sleep the backoff delay on top, and leaves the backoff delay
\* unchanged.
C24_FloodWaitOverrides ==
    [][/\ (/\ rr_pc \in {"connecting", "recover", "live"}
           /\ rr_pc' \in {"flood_sleep", "backoff_sleep"}
           /\ caught'.e = "FloodWaitError")
             => /\ rr_pc' = "flood_sleep"
                /\ sleep_for' = caught'.seconds
                /\ reconnect_delay' = reconnect_delay
       /\ rr_pc = "flood_sleep"
             => /\ rr_pc' \in {"flood_sleep", "loop"}
                /\ reconnect_delay' = reconnect_delay
                /\ rr_pc' = "flood_sleep" => sleep_for' = sleep_for
                /\ rr_pc' = "loop" => sleep_for' = 0]_vars

\* C24 witness: a wait longer than the cap of the backoff is being slept
\* while the backoff delay stands at 20
C24_Witness ==
    /\ rr_pc = "flood_sleep"
    /\ caught = [e |-> "FloodWaitError", seconds |-> 600, delay |-> 20]
    /\ sleep_for = 600
    /\ reconnect_delay = 20

\* C25: the worker never goes from Disconnected back to Live without a
\* gap-recovery run that completed in between.
C25_RecoveryBeforeLive ==
    rr_pc = "live" => gap_done

\* ------------------------------------------------------------------------
\* Properties of the batch inserts of gap recovery
\* ------------------------------------------------------------------------

\* the _recover_one calls that are inside insert_messages_batch
Inserting ==
    {wg \in Tenants \X RecGroups : rec_pc[wg[1]][wg[2]] = "insert"}

\* C26: at most one gap-recovery insert_messages_batch call is in progress
\* at any time, across all groups and across all workers that are
\* recovering concurrently.
C26_OneBatchInsertAtATime == Cardinality(Inserting) <= 1

\* ------------------------------------------------------------------------
\* Properties of the store: batches that fail
\* ------------------------------------------------------------------------

\* C27: insert_messages_batch is all-or-nothing: when it fails partway, none
\* of the rows of messages and links it had inserted is ever persisted,
\* also when a live insert_message on the same connection commits while
\* the batch is running or after it failed.
C27_FailedBatchLeavesNothing ==
    /\ committed.messages \cap failed_rows.messages = {}
    /\ committed.links \cap failed_rows.links = {}

\* ------------------------------------------------------------------------
\* Properties of the event handlers
\* ------------------------------------------------------------------------

C29_DeleteWithinChannel ==
    [][del_ev'.channel_id # 0 =>
          \A r \in (messages \ messages')
                      \cup (committed.messages \ committed'.messages) :
              /\ del_ev'.channel_id \in DelMonitored
              /\ r.group_id = del_ev'.channel_id
              /\ r.id \in del_ev'.ids]_vars

\* C29 witness: the event for message 1 of channel 10 has removed that row,
\* and message 1 of the monitored group 20 and of group 30 are stored
C29_Witness ==
    /\ del_ev.channel_id = 10
    /\ del_ev.ids = {1}
    /\ del_ev.hit = {10}
    /\ ~HasKey(messages, 1, 10)
    /\ HasKey(messages, 1, 20)
    /\ HasKey(messages, 1, 30)

C31_SettingDecidesAlert ==
    (last_live.key # <<>> /\ last_live.read_ok /\ last_live.setting # None)
        => (last_live.alerted <=> /\ IsTrueText(last_live.setting)
                                  /\ last_live.matched
                                  /\ ~last_live.known)

\* C32: each sweep deletes the rows older than the stored retention_days,
\* or than keep_days of the file config when no Setting is stored
C32_SweepUsesStoredRetention ==
    [][today' # today =>
          row_dates' = SweptRows(row_dates, today',
                          IF settings.retention_days # None
                          THEN IntOfStr(settings.retention_days)
                          ELSE cleanup_days)]_vars

\* C33: whenever check_message appends to a full deque (after a rehydration
\* or not), the key that falls out is one with the oldest emission time
\* among the keys the deque holds
C33_EvictsOldestEmission ==
    [][(/\ Len(alerted_deque) = DequeMaxLen
        /\ lastSend'.key # <<>>
        /\ lastSend' # lastSend)
          => \A k \in Range(alerted_deque) :
                lastEmit[alerted_deque[1]] <= lastEmit[k]]_vars

\* ------------------------------------------------------------------------
\* Properties of the alert prune
\* ------------------------------------------------------------------------

\* C34: no step removes from alerted_messages a key that was alerted less
\* than 48 h before
C34_PruneKeepsRecentKeys ==
    [][\A r \in alerted_messages \ alerted_messages' :
          clock - lastEmit[r.msg_key] >= 48]_vars

\* ------------------------------------------------------------------------
\* Properties of the job verdict
\* ------------------------------------------------------------------------

\* the merge call is made when more than one summary is kept
MergeMade ==
    IF vd_mode = "per_group" THEN Len(group_summaries(vd_units)) > 1
    ELSE Len(vd_units) > 1 /\ Len(chunk_summaries(vd_units)) > 1

\* every _call_llm of the run handed back an error text
AllCallsFailed ==
    /\ vd_units # <<>>
    /\ \A k \in DOMAIN vd_units : StartsWithCross(vd_units[k])
    /\ MergeMade => StartsWithCross(vd_merge)

\* the run failed: every call failed, or the outcome is a failure text
RunFailed ==
    \/ AllCallsFailed
    \/ StartsWithCross(vd_result)
    \/ vd_result = SummaryFailed

\* C35: a job whose run returned and failed ends in status error with the
\* failure text in error_msg, and never in status done
C35_FailedRunEndsInError ==
    (vd_pc = "end" /\ vd_job.error_msg # ExceptionMsg /\ RunFailed)
        => /\ vd_job.status = "error"
           /\ vd_job.error_msg = vd_result

\* C36: every _call_llm call that was entered returns in the end, with a
\* reply or an error text, whatever the key configuration is
C36_CallReturns ==
    \A c \in Callers :
        (calls[c].pc = "get") ~> (calls[c].pc = "done")

\* ------------------------------------------------------------------------
\* Properties of the alert fan-out
\* ------------------------------------------------------------------------

\* C37: a notification for a key is sent only while no manager of the pool
\* holds the key in its de-duplication window
C37_OneNotificationPerKey ==
    fan_last.key # <<>> => fan_last.holders = {}

\* the same within one worker: a manager never sends for a key it holds
OneNotificationPerManager ==
    fan_last.key # <<>> => fan_last.worker \notin fan_last.holders

\* C38: every worker whose task has not finished is the worker the pool's
\* map holds for its tenant, and no stop_tenant call ends in an error
C38_RunningWorkersListed ==
    /\ \A w \in DOMAIN session_workers :
          session_workers[w].task # "done"
              => pool_workers[session_workers[w].tenant] = w
    /\ \A c \in StopCalls : stops[c].pc # "KeyError"

\* the same once every call has returned
RunningWorkersListedAtRest ==
    (/\ \A c \in StopCalls : stops[c].pc = "idle"
     /\ \A t \in PoolTenants : starts[t] = 0)
        => \A w \in DOMAIN session_workers :
              session_workers[w].task # "done"
                  => pool_workers[session_workers[w].tenant] = w

\* ------------------------------------------------------------------------
\* Properties of the sweeper
\* ------------------------------------------------------------------------

\* C39: once run_realtime has ended, for whatever reason, its sweeper task
\* is cancelled (or finished) and makes no sweep
C39_SweeperEndsWithRun ==
    rt_pc \in Over => /\ cleanup_task \in {"cancelled", "done"}
                      /\ late_sweeps = 0

\* the same for the ends that go through the lines after the loop
SweeperEndsAfterLoop ==
    rt_pc = "ended" => /\ cleanup_task \in {"cancelled", "done"}
                       /\ late_sweeps = 0

\* ------------------------------------------------------------------------
\* Properties of the window formatting
\* ------------------------------------------------------------------------

NullTextInWindow == \E i \in DOMAIN fmt_window : fmt_window[i].text.none

\* C40: summarize and summarize_per_group return a string without raising
\* for every window read from the store, windows with rows of NULL text
\* included
C40_SummariesNeverRaise ==
    fmt_pc = "over" => fmt_out.raised = ""

\* a window with no NULL text is summarized without an exception, and a
\* window with one ends in TypeError
RaisesOnNullTextOnly ==
    fmt_pc = "over" =>
        (fmt_out.raised = "TypeError" <=> NullTextInWindow)

====
